---------------------------- MODULE Spec2Model ----------------------------
(***************************************************************************)
(* Span resolution (llm_extraction/span_matcher.py,                        *)
(* llm_extraction_complex/span_calculator.py) and the redundancy pass of   *)
(* add_batch (web_backend/run.py).                                         *)
(*                                                                         *)
(* Texts are sequences of one-character strings.  Offsets are Python's:    *)
(* 0-based, end exclusive; text[i] of the source is text[i+1] here.        *)
(***************************************************************************)
EXTENDS Integers, Sequences, FiniteSets, TLC

VARIABLES
    record_text,   \* MedicalRecord.text of the record citations are resolved against
    call,          \* the last resolution call: its function, its citation, its result
    records,       \* the PatientRecord rows of one subject, in list order
    links,         \* the TextDuplicate rows, in creation order
    passes,        \* how many times the redundancy pass has run over records
    batches,       \* the Batch rows, in creation order
    findings,      \* the Finding and Highlight rows, in creation order
    tasks,         \* the asyncio tasks of one extract_patient_features call
    requests       \* the /api/process requests being served

vars ==
    <<record_text, call, records, links, passes, batches, findings, tasks,
      requests>>

---------------------------------------------------------------------------
(* Bounds of the model. *)
MaxCitLen == 2      \* longest enumerated citation text
MaxTextLen == 3     \* longest enumerated record text
MaxPieces == 2      \* most pieces in one document of a subject
MaxRecords == 3     \* most documents of one subject
MaxDate == 2        \* dates are 1..MaxDate

---------------------------------------------------------------------------
(* Python's str and list primitives. *)

Min(S) == CHOOSE x \in S : \A y \in S : x <= y
Max(S) == CHOOSE x \in S : \A y \in S : x >= y

\* U+0130, LATIN CAPITAL LETTER I WITH DOT ABOVE: the one character whose
\* str.lower() is two code points (i, U+0307).
IDot == "I-dot"
CombiningDot == "dot-above"

\* str.isspace() and the regular expression \s agree on these.
WhitespaceChars == {" ", "\n", "\t"}

IsSpace(c) == c \in WhitespaceChars

\* s[lo:hi] for 0 <= lo, any hi (Python clamps a slice to the string).
Slice(s, lo, hi) ==
    LET h == IF hi > Len(s) THEN Len(s) ELSE hi
    IN  IF lo >= h THEN <<>> ELSE SubSeq(s, lo + 1, h)

\* str.strip()
Strip(s) ==
    LET idx == {i \in 1..Len(s) : ~IsSpace(s[i])}
    IN  IF idx = {} THEN <<>> ELSE SubSeq(s, Min(idx), Max(idx))

\* The upper-case letters of the texts used here, and their lower case.
UpperCase == {"A", "E", "R", "X"}

LowerOf(c) ==
    CASE c = "A" -> "a"
      [] c = "E" -> "e"
      [] c = "R" -> "r"
      [] c = "X" -> "x"

\* str.lower() of one character: a sequence, because its length may differ.
LowerChar(c) ==
    IF c = IDot THEN <<"i", CombiningDot>>
    ELSE IF c \in UpperCase THEN <<LowerOf(c)>>
    ELSE <<c>>

\* str.lower()
Lower(s) ==
    LET F[i \in 0..Len(s)] ==
            IF i = 0 THEN <<>> ELSE F[i - 1] \o LowerChar(s[i])
    IN  F[Len(s)]

\* s.find(sub, start): the leftmost offset p >= start with s[p:p+len(sub)]
\* = sub, or -1.
Find(s, sub, start) ==
    LET cands == {p \in start..(Len(s) - Len(sub)) :
                      SubSeq(s, p + 1, p + Len(sub)) = sub}
    IN  IF cands = {} THEN -1 ELSE Min(cands)

\* list[i]: ok is FALSE where Python raises IndexError.
PyIndex(list, i) ==
    IF i >= 0 /\ i < Len(list) THEN [ok |-> TRUE, val |-> list[i + 1]]
    ELSE IF i < 0 /\ -i <= Len(list)
         THEN [ok |-> TRUE, val |-> list[Len(list) + i + 1]]
    ELSE [ok |-> FALSE, val |-> 0]

---------------------------------------------------------------------------
(* difflib.SequenceMatcher(None, a, b), for len(b) < 200 (below the        *)
(* autojunk heuristic's size).                                             *)

RECURSIVE RunLen(_, _, _, _, _, _)
\* The length of the common run of a[i:ahi] and b[j:bhi] from their starts.
RunLen(a, b, i, ahi, j, bhi) ==
    IF i < ahi /\ j < bhi /\ a[i + 1] = b[j + 1]
    THEN 1 + RunLen(a, b, i + 1, ahi, j + 1, bhi)
    ELSE 0

\* find_longest_match(alo, ahi, blo, bhi): the longest block of a[alo:ahi]
\* that is in b[blo:bhi]; of the longest, the one earliest in a, and of
\* those the one earliest in b.
FindLongestMatch(a, b, alo, ahi, blo, bhi) ==
    LET starts == {p \in (alo..(ahi - 1)) \X (blo..(bhi - 1)) :
                       a[p[1] + 1] = b[p[2] + 1]}
        len[p \in starts] == RunLen(a, b, p[1], ahi, p[2], bhi)
    IN  IF starts = {} THEN [a |-> alo, b |-> blo, size |-> 0]
        ELSE LET best == Max({len[p] : p \in starts})
                 long == {p \in starts : len[p] = best}
                 i    == Min({p[1] : p \in long})
                 j    == Min({p[2] : p \in {q \in long : q[1] = i}})
             IN  [a |-> i, b |-> j, size |-> best]

RECURSIVE BlocksIn(_, _, _, _, _, _), BlocksAround(_, _, _, _, _, _, _)
\* The recursion of get_matching_blocks over a[alo:ahi], b[blo:bhi], in
\* ascending order: the blocks left of the longest match m, then m, then
\* the blocks right of it.
BlocksAround(a, b, alo, ahi, blo, bhi, m) ==
    IF m.size = 0 THEN <<>>
    ELSE (IF alo < m.a /\ blo < m.b
          THEN BlocksIn(a, b, alo, m.a, blo, m.b) ELSE <<>>)
         \o <<m>>
         \o (IF m.a + m.size < ahi /\ m.b + m.size < bhi
             THEN BlocksIn(a, b, m.a + m.size, ahi, m.b + m.size, bhi)
             ELSE <<>>)

BlocksIn(a, b, alo, ahi, blo, bhi) ==
    BlocksAround(a, b, alo, ahi, blo, bhi,
                 FindLongestMatch(a, b, alo, ahi, blo, bhi))

\* Block m put after the blocks acc: merged into the last of them when it
\* is adjacent to it in both texts.
MergeBlock(acc, m) ==
    IF acc # <<>>
       /\ acc[Len(acc)].a + acc[Len(acc)].size = m.a
       /\ acc[Len(acc)].b + acc[Len(acc)].size = m.b
    THEN [acc EXCEPT ![Len(acc)].size = @ + m.size]
    ELSE Append(acc, m)

RECURSIVE MergeAdjacent(_)
MergeAdjacent(raw) ==
    IF raw = <<>> THEN <<>>
    ELSE MergeBlock(MergeAdjacent(SubSeq(raw, 1, Len(raw) - 1)), raw[Len(raw)])

\* get_matching_blocks(), without its closing (len(a), len(b), 0) entry.
get_matching_blocks(a, b) ==
    MergeAdjacent(BlocksIn(a, b, 0, Len(a), 0, Len(b)))

RECURSIVE SumSizes(_)
SumSizes(blocks) ==
    IF blocks = <<>> THEN 0 ELSE blocks[1].size + SumSizes(Tail(blocks))

\* The number of matched characters of ratio().
Matches(a, b) == SumSizes(get_matching_blocks(a, b))

\* The similarity threshold 0.9 as a fraction.
ThresholdNum == 9
ThresholdDen == 10

\* A test that leaves out a ratio equal to the threshold: C22 does not hold
\* of it.
StrictlyAbove(m, t) ==
    IF t = 0 THEN TRUE ELSE 2 * m * ThresholdDen > ThresholdNum * t

\* 2.0 * m / t >= threshold, for the m matched characters and the summed
\* lengths t of a ratio(); ratio() is 1.0 when t is 0.
ReachesThreshold(m, t) ==
    IF t = 0 THEN TRUE ELSE 2 * m * ThresholdDen >= ThresholdNum * t

\* SequenceMatcher(None, a, b).ratio() >= threshold
RatioAtLeastThreshold(a, b) == ReachesThreshold(Matches(a, b), Len(a) + Len(b))

---------------------------------------------------------------------------
(* SpanMatcher (llm_extraction/span_matcher.py). *)

\* re.sub(r'\s+', ' ', text): every maximal whitespace run becomes one space.
CollapseWhitespace(text) ==
    LET F[i \in 0..Len(text)] ==
            IF i = 0 THEN <<>>
            ELSE IF ~IsSpace(text[i]) THEN Append(F[i - 1], text[i])
            ELSE IF i = 1 \/ ~IsSpace(text[i - 1]) THEN Append(F[i - 1], " ")
            ELSE F[i - 1]
    IN  F[Len(text)]

normalize_whitespace(text) == Strip(CollapseWhitespace(text))

\* The list without its final position: C24 does not hold of it.
MapWithoutFinal(original_text) ==
    LET F[i \in 0..Len(original_text)] ==
            IF i = 0 THEN <<>>
            ELSE IF ~IsSpace(original_text[i]) THEN Append(F[i - 1], i - 1)
            ELSE IF i = 1 \/ ~IsSpace(original_text[i - 1])
                 THEN Append(F[i - 1], i - 1)
            ELSE F[i - 1]
    IN  F[Len(original_text)]

\* The final position put first in the list: C25 does not hold of it.
FinalPositionFirst(original_text) ==
    <<Len(original_text)>> \o MapWithoutFinal(original_text)

\* The list norm_to_orig of _map_to_original_positions: one entry for every
\* non-whitespace character and for the first character of every whitespace
\* run of original_text, then len(original_text).
norm_to_orig(original_text) ==
    LET F[i \in 0..Len(original_text)] ==
            IF i = 0 THEN <<>>
            ELSE IF ~IsSpace(original_text[i]) THEN Append(F[i - 1], i - 1)
            ELSE IF i = 1 \/ ~IsSpace(original_text[i - 1])
                 THEN Append(F[i - 1], i - 1)
            ELSE F[i - 1]
    IN  Append(F[Len(original_text)], Len(original_text))

\* The offset left as it is, as the lookup would be without the clamp: C9
\* does not hold of it.
UnclampedOffset(list, off) == off

\* The clamp of a normalized offset that is past the list.
ClampOffset(list, off) == IF off >= Len(list) THEN Len(list) - 1 ELSE off

\* The two look-ups of _map_to_original_positions in its list; raised is
\* Python's IndexError.
LookUpPositions(list, norm_start, norm_end) ==
    LET s == PyIndex(list, ClampOffset(list, norm_start))
        e == PyIndex(list, ClampOffset(list, norm_end))
    IN  IF s.ok /\ e.ok
        THEN [raised |-> FALSE, original_start |-> s.val, original_end |-> e.val]
        ELSE [raised |-> TRUE, original_start |-> 0, original_end |-> 0]

\* _map_to_original_positions (normalized_text is not read by the code).
map_to_original_positions(original_text, normalized_text, norm_start, norm_end) ==
    LookUpPositions(norm_to_orig(original_text), norm_start, norm_end)

RECURSIVE FuzzyScanFirst(_, _, _)
\* The loop of _fuzzy_find_first from window i on: the first window whose
\* ratio reaches the threshold.
FuzzyScanFirst(pattern, text, i) ==
    IF i >= Len(text) - Len(pattern) + 1 THEN [found |-> FALSE]
    ELSE IF RatioAtLeastThreshold(pattern, Slice(text, i, i + Len(pattern)))
         THEN [found |-> TRUE, start |-> i, end |-> i + Len(pattern)]
         ELSE FuzzyScanFirst(pattern, text, i + 1)

fuzzy_find_first(pattern, text) == FuzzyScanFirst(pattern, text, 0)

\* A guard that fires on a start of 0 alone: C10 does not hold of it.
GuardOnStartOnly(original_start, original_end) == original_start = 0

\* No guard at all: C8 does not hold of it.
GuardRemoved(original_start, original_end) == FALSE

\* The guard of find_first_match on a mapped span.
InvalidSpan(original_start, original_end) ==
    original_start = 0 /\ original_end = 0

\* The confidence find_first_match gives a span found by fuzzy matching.
MatcherFuzzyConfidence(confidence) == confidence

\* What find_first_match returns for the mapped positions m of a match.  how
\* ("exact", "fuzzy", "guard", "nomatch"), searched (the searches of the
\* record text that were run) and discarded (the positions the guard threw
\* away) are not returned by the code: they are kept for the properties.
MatcherResult(m, confidence, how, searched) ==
    IF m.raised
    THEN [returned |-> "raise", how |-> how, searched |-> searched]
    ELSE IF InvalidSpan(m.original_start, m.original_end)
    THEN [returned |-> "None", how |-> "guard", searched |-> searched,
          discarded |-> <<m.original_start, m.original_end>>]
    ELSE [returned |-> "span", how |-> how, searched |-> searched,
          start_char |-> m.original_start, end_char |-> m.original_end,
          confidence |-> IF how = "fuzzy"
                         THEN MatcherFuzzyConfidence(confidence)
                         ELSE confidence]

MatcherSpan(record, confidence, norm_start, norm_end, how, searched) ==
    MatcherResult(map_to_original_positions(record, normalize_whitespace(record),
                                            norm_start, norm_end),
                  confidence, how, searched)

\* Step 4 of find_first_match, after _fuzzy_find_first gave fuzzy_match.
AfterFuzzyFind(record, confidence, fuzzy_match) ==
    IF fuzzy_match.found
    THEN MatcherSpan(record, confidence, fuzzy_match.start, fuzzy_match.end,
                     "fuzzy", {"exact", "fuzzy"})
    ELSE [returned |-> "None", how |-> "nomatch", searched |-> {"exact", "fuzzy"}]

\* Step 3 of find_first_match, after record_lower.find gave pos.
AfterExactFind(record, confidence, citation_lower, record_lower, pos) ==
    IF pos # -1
    THEN MatcherSpan(record, confidence, pos, pos + Len(citation_lower),
                     "exact", {"exact"})
    ELSE AfterFuzzyFind(record, confidence,
                        fuzzy_find_first(citation_lower, record_lower))

MatchLowered(record, confidence, citation_lower, record_lower) ==
    AfterExactFind(record, confidence, citation_lower, record_lower,
                   Find(record_lower, citation_lower, 0))

\* SpanMatcher.find_first_match(citation, record)
find_first_match(quoted_text, confidence, record) ==
    MatchLowered(record, confidence, Lower(normalize_whitespace(quoted_text)),
                 Lower(normalize_whitespace(record)))

---------------------------------------------------------------------------
(* SpanCalculator (llm_extraction_complex/span_calculator.py). *)

\* The shortest pattern _fuzzy_find matches.
MinFuzzyLen == 10

\* The first window that reaches the threshold kept, whatever the ratio of
\* a later one: C20 as amended does not hold of it.
KeepFirst(best, i, n, m, t) ==
    IF ~best.found /\ m > 0 /\ ReachesThreshold(m, t)
    THEN [found |-> TRUE, start |-> i, end |-> i + n, m |-> m, t |-> t]
    ELSE best

\* The test "ratio > best_ratio and ratio >= threshold" of _fuzzy_find for
\* window i of length n: m and t are the matched characters and the summed
\* lengths of its ratio 2.0 * m / t, compared as fractions (best_ratio is 0
\* at first).
KeepBetter(best, i, n, m, t) ==
    IF (IF best.found THEN m * best.t > best.m * t ELSE m > 0)
       /\ ReachesThreshold(m, t)
    THEN [found |-> TRUE, start |-> i, end |-> i + n, m |-> m, t |-> t]
    ELSE best

BetterOf(best, i, n, p, w) == KeepBetter(best, i, n, Matches(p, w), Len(p) + Len(w))

RECURSIVE FuzzyScanBest(_, _, _, _)
\* The loop of _fuzzy_find from window i on; best is the match kept so far.
FuzzyScanBest(pattern, text, i, best) ==
    IF i >= Len(text) - Len(pattern) + 1 THEN best
    ELSE FuzzyScanBest(pattern, text, i + 1,
             BetterOf(best, i, Len(pattern), Lower(pattern),
                      Lower(Slice(text, i, i + Len(pattern)))))

\* SpanCalculator._fuzzy_find(pattern, text, threshold)
fuzzy_find(pattern, text) ==
    IF Len(pattern) < MinFuzzyLen THEN [found |-> FALSE]
    ELSE FuzzyScanBest(pattern, text, 0, [found |-> FALSE])

\* Every fuzzy span downgraded to "low": C7 as amended does not hold of it.
CalculatorAlwaysLow(confidence) == "low"

\* The confidence find_spans gives a span found by fuzzy matching.
CalculatorFuzzyConfidence(confidence) ==
    IF confidence = "high" THEN "low" ELSE confidence

\* A TextSpan; how ("exact" or "fuzzy") is not a field of it: it is kept
\* for the properties.
TextSpan(record, start_char, end_char, confidence, match_index, how) ==
    [text |-> Slice(record, start_char, end_char), start_char |-> start_char,
     end_char |-> end_char, confidence |-> confidence,
     match_index |-> match_index, how |-> how]

RECURSIVE FindSpansFrom(_, _, _, _, _), SpansAfterFind(_, _, _, _, _, _),
          SpansAfterFuzzy(_, _, _, _, _, _)
\* The else branch of the loop, after _fuzzy_find gave fuzzy_result.
SpansAfterFuzzy(normalized_citation, confidence, record, start, match_index, fuzzy_result) ==
    IF fuzzy_result.found
    THEN <<TextSpan(record, start + fuzzy_result.start, start + fuzzy_result.end,
                    CalculatorFuzzyConfidence(confidence), match_index, "fuzzy")>>
         \o FindSpansFrom(normalized_citation, confidence, record,
                          start + fuzzy_result.end, match_index + 1)
    ELSE <<>>

\* The loop body, after record_text.lower().find(..., start) gave pos.
SpansAfterFind(normalized_citation, confidence, record, start, match_index, pos) ==
    IF pos # -1
    THEN <<TextSpan(record, pos, pos + Len(normalized_citation), confidence,
                    match_index, "exact")>>
         \o FindSpansFrom(normalized_citation, confidence, record,
                          pos + Len(normalized_citation), match_index + 1)
    ELSE SpansAfterFuzzy(normalized_citation, confidence, record, start,
                         match_index,
                         fuzzy_find(normalized_citation,
                                    Slice(record, start, Len(record))))

\* The while loop of find_spans from offset start on.
FindSpansFrom(normalized_citation, confidence, record, start, match_index) ==
    IF ~(start < Len(record)) THEN <<>>
    ELSE SpansAfterFind(normalized_citation, confidence, record, start,
                        match_index,
                        Find(Lower(record), Lower(normalized_citation), start))

\* The test of find_spans for an empty citation.
EmptyCitation(text) == Strip(text) = <<>>

\* SpanCalculator.find_spans(citation, record).  searched tells whether the
\* loop that searches the record text was entered.
find_spans(text, confidence, record) ==
    IF EmptyCitation(text)
    THEN [returned |-> "list", spans |-> <<>>, searched |-> FALSE]
    ELSE [returned |-> "list",
          spans |-> FindSpansFrom(normalize_whitespace(text), confidence,
                                  record, 0, 0),
          searched |-> Len(record) > 0]

---------------------------------------------------------------------------
(* The redundancy pass of add_batch (web_backend/run.py). *)

\* The default min_len of find_duplicates, which add_batch leaves as it is.
DefaultMinLen == 20

\* The blocks of every size, none left out: C13 does not hold of it.
AllBlocks(blocks, min_len) ==
    [k \in 1..Len(blocks) |->
        [offset |-> blocks[k].a, size |-> blocks[k].size,
         offset_ref |-> blocks[k].b]]

RECURSIVE LongBlocks(_, _)
\* The blocks of size >= min_len, as the dicts of find_duplicates.
LongBlocks(blocks, min_len) ==
    IF blocks = <<>> THEN <<>>
    ELSE (IF blocks[1].size >= min_len
          THEN <<[offset |-> blocks[1].a, size |-> blocks[1].size,
                  offset_ref |-> blocks[1].b]>>
          ELSE <<>>)
         \o LongBlocks(Tail(blocks), min_len)

RECURSIVE InsertByOffset(_, _)
\* d put into the offset-sorted list after every block of no greater offset.
InsertByOffset(sorted, d) ==
    IF sorted = <<>> THEN <<d>>
    ELSE IF sorted[Len(sorted)].offset <= d.offset THEN Append(sorted, d)
    ELSE Append(InsertByOffset(SubSeq(sorted, 1, Len(sorted) - 1), d),
                sorted[Len(sorted)])

RECURSIVE SortByOffset(_)
\* result.sort(key=lambda x: x['offset']): ascending and stable.
SortByOffset(result) ==
    IF result = <<>> THEN <<>>
    ELSE InsertByOffset(SortByOffset(SubSeq(result, 1, Len(result) - 1)),
                        result[Len(result)])

\* find_duplicates(value_text, ref_text, min_len)
find_duplicates(value_text, ref_text, min_len) ==
    SortByOffset(LongBlocks(get_matching_blocks(value_text, ref_text), min_len))

\* bisect.bisect_left(list, x) on a sorted list.
bisect_left(list, x) == Cardinality({k \in 1..Len(list) : list[k] < x})

\* The index add_batch computes for the reference record of a block.
RefIndex(dividers, offset_ref) == bisect_left(dividers, offset_ref) - 1

RECURSIVE InsertByDate(_, _)
\* r put into the date-sorted list after every record dated no later.
InsertByDate(sorted, r) ==
    IF sorted = <<>> THEN <<r>>
    ELSE IF sorted[Len(sorted)].date <= r.date THEN Append(sorted, r)
    ELSE Append(InsertByDate(SubSeq(sorted, 1, Len(sorted) - 1), r),
                sorted[Len(sorted)])

RECURSIVE SortByDate(_)
\* records.sort(key=lambda x: x.date): ascending and stable.
SortByDate(recs) ==
    IF recs = <<>> THEN <<>>
    ELSE InsertByDate(SortByDate(SubSeq(recs, 1, Len(recs) - 1)), recs[Len(recs)])

RECURSIVE AllOriginalText(_, _)
\* The texts of the records before record i as they were parsed, with none
\* of the cuts made in them: C18 does not hold of it.
AllOriginalText(recs, i) ==
    IF i <= 1 THEN <<>>
    ELSE AllOriginalText(recs, i - 1) \o recs[i - 1].original

RECURSIVE AllText(_, _)
\* all_text as the pass builds it for record i (1-based here): the texts of
\* the records before it.
AllText(recs, i) ==
    IF i <= 1 THEN <<>> ELSE AllText(recs, i - 1) \o recs[i - 1].text

\* dividers for record i: where each earlier record starts in all_text.
Dividers(recs, i) == [k \in 1..(i - 1) |-> Len(AllText(recs, k))]

\* The offset of the block as find_duplicates gave it, whatever was cut
\* before it: C17 does not hold of it.
OffsetUnadjusted(dup, removed) == dup.offset

\* offset_start = dup['offset'] - removed
OffsetStart(dup, removed) == dup.offset - removed

\* One turn of the inner loop: block dup of record i is cut out of the
\* text and its TextDuplicate row is made.  st carries text, removed and the
\* rows so far.  removed_text (the characters cut), offset_ref, dividers and
\* pass are not columns of the table: they are kept for the properties.
RemoveBlock(recs, i, dividers, st, dup, pass) ==
    LET offset_start == OffsetStart(dup, st.removed)
        ref_i        == RefIndex(dividers, dup.offset_ref)
        ref_offset   == dup.offset_ref - PyIndex(dividers, ref_i).val
    IN  [text    |-> Slice(st.text, 0, offset_start)
                     \o Slice(st.text, offset_start + dup.size, Len(st.text)),
         removed |-> st.removed + dup.size,
         rows    |-> Append(st.rows,
                        [patient_record_id |-> recs[i].id,
                         was_at            |-> offset_start,
                         duplicate_of      |-> PyIndex(recs, ref_i).val.id,
                         offset_start      |-> ref_offset,
                         offset_end        |-> ref_offset + dup.size,
                         removed_text      |-> Slice(st.text, offset_start,
                                                     offset_start + dup.size),
                         offset_ref        |-> dup.offset_ref,
                         dividers          |-> dividers,
                         pass              |-> pass])]

RECURSIVE CutBlocks(_, _, _, _, _)
\* "for dup in find_duplicates(record.text, all_text)" over the blocks dups.
CutBlocks(recs, i, dividers, dups, pass) ==
    IF dups = <<>> THEN [text |-> recs[i].text, removed |-> 0, rows |-> <<>>]
    ELSE RemoveBlock(recs, i, dividers,
                     CutBlocks(recs, i, dividers,
                               SubSeq(dups, 1, Len(dups) - 1), pass),
                     dups[Len(dups)], pass)

\* The body of "for i, record in enumerate(records)" for record i.
DedupRecord(recs, i, pass) ==
    CutBlocks(recs, i, Dividers(recs, i),
              find_duplicates(recs[i].text, AllText(recs, i), DefaultMinLen),
              pass)

\* Record n takes the text its turn left; the rows of the turn are added.
AfterRecord(st, n, d) ==
    [recs |-> [st.recs EXCEPT ![n].text = d.text], rows |-> st.rows \o d.rows]

\* The turn of record n, from the state st the turns before it left.
Turn(st, n, pass) == AfterRecord(st, n, DedupRecord(st.recs, n, pass))

RECURSIVE PassOver(_, _, _)
\* The outer loop over the first n records of the sorted list.
PassOver(sorted, n, pass) ==
    IF n = 0 THEN [recs |-> sorted, rows |-> <<>>]
    ELSE Turn(PassOver(sorted, n - 1, pass), n, pass)

\* The remove_duplicates branch of add_batch over the parsed records: sort,
\* then every record in turn against the edited records before it.
RemoveDuplicates(parsed, pass) ==
    PassOver(SortByDate(parsed), Len(parsed), pass)

---------------------------------------------------------------------------
(* Inputs. *)

Alphabet == {"a", "A", " ", IDot}

Strs(n) == UNION {[1..k -> Alphabet] : k \in 0..n}

Confidences == {"high", "medium", "low"}

\* "ER 90%" with one space, with two, with a space and a line break.
TextER == <<"E", "R", " ", "9", "0", "%">>
TextER2 == <<"E", "R", " ", " ", "9", "0", "%">>
TextERnl == <<"x", " ", "E", "R", " ", "\n", "9", "0", "%">>

\* A pattern of ten characters, a text holding it with one character
\* changed (9 of 10 matched), and one with two changed (8 of 10).
Cit10 == <<"a", "b", "c", "d", "e", "f", "g", "h", "i", "j">>
TextNear == <<"z", "z", " ", "a", "b", "c", "d", "e", "f", "g", "h", "i", "z">>
TextFar == <<"a", "b", "c", "d", "e", "f", "g", "h", "z", "z">>

\* A text holding the pattern as it is, and after it once more with one
\* character changed.
TextExactThenNear ==
    Cit10 \o <<" ", "a", "b", "c", "d", "e", "f", "g", "h", "i", "z">>

\* A pattern of twenty characters, and a text whose first window has 18 of
\* them matched and whose second has 19.
Cit20 == <<"a", "b", "c", "d", "e", "f", "g", "h", "i", "j",
           "k", "l", "m", "n", "o", "p", "q", "r", "s", "t">>
TextBetterLater ==
    <<"_", "a", "b", "c", "d", "e", "f", "g", "h", "i", "Z",
      "k", "l", "m", "n", "o", "p", "q", "r", "s", "t">>

\* A text whose only window has 17 of the 20 characters of Cit20 matched.
TextSeventeen ==
    <<"a", "b", "c", "Z", "e", "f", "g", "h", "i", "Z",
      "k", "l", "m", "n", "o", "Z", "q", "r", "s", "t">>

\* A pattern of five characters that is ten characters long in lower case,
\* and a text that in lower case holds nine of the ten.
CitDots == <<IDot, IDot, IDot, IDot, IDot>>
TextDots == <<IDot, IDot, IDot, IDot, "i", "z">>

Citations == Strs(MaxCitLen) \cup {TextER, TextER2, Cit10, Cit20, CitDots}

Texts ==
    Strs(MaxTextLen) \cup
    {TextER, TextER2, TextERnl, TextNear, TextFar, TextExactThenNear,
     TextBetterLater, TextDots, TextSeventeen}

\* Document pieces: one as long as the shortest block the pass removes,
\* one half as long.
PieceA == <<"a", "b", "c", "d", "e", "f", "g", "h", "i", "j",
            "k", "l", "m", "n", "o", "p", "q", "r", "s", "t">>
PieceX == <<"0", "1", "2", "3", "4", "5", "6", "7", "8", "9">>

Pieces == {PieceA, PieceX}

RECURSIVE DocsOf(_)
\* The texts made of 1..n pieces.
DocsOf(n) ==
    IF n = 0 THEN {}
    ELSE LET shorter == DocsOf(n - 1)
         IN  Pieces \cup shorter \cup {d \o p : d \in shorter, p \in Pieces}

DocTexts == DocsOf(MaxPieces)

\* The two documents of the worked example: dated 2022-10-05 and
\* 2022-11-01 ("i-acute" is the one character U+00ED).
ScenarioFirst ==
    <<"P", "a", "c", "i", "e", "n", "t", "k", "a", " ", "s", " ",
      "k", "a", "r", "c", "i", "n", "o", "m", "e", "m", " ",
      "p", "r", "s", "u", ",", " ", "c", "T", "2", "N", "0", "M", "0", ".">>

ScenarioSecond ==
    <<"K", "o", "n", "t", "r", "o", "l", "a", ".", " ">> \o ScenarioFirst
    \o <<" ", "S", "t", "a", "v", " ", "s", "t", "a", "b", "i", "l", "n",
         "i-acute", ".">>

Scenario ==
    <<[date |-> 20221005, text |-> ScenarioFirst],
      [date |-> 20221101, text |-> ScenarioSecond]>>

PieceB == <<"A", "B", "C", "D", "E", "F", "G", "H", "I", "J",
            "K", "L", "M", "N", "O", "P", "Q", "R", "S", "T">>

\* A document that repeats two passages of an earlier one, with text of
\* its own between them.
TwoBlocks ==
    <<[date |-> 1, text |-> PieceA \o PieceB],
      [date |-> 2, text |-> PieceA \o PieceX \o PieceB]>>

\* A document that repeats, in one passage, the whole of the two before it.
AcrossTwo ==
    <<[date |-> 1, text |-> PieceA],
      [date |-> 1, text |-> PieceB],
      [date |-> 2, text |-> PieceX \o PieceA \o PieceB]>>

\* A document that repeats a passage of an earlier one from which the pass
\* has cut text on either side of it.
AfterCut ==
    <<[date |-> 1, text |-> PieceA \o PieceB],
      [date |-> 2, text |-> PieceA \o PieceX \o PieceB],
      [date |-> 2, text |-> PieceX \o PieceB]>>

\* The <zaznam> elements of one patient file, in file order.
BatchInputs ==
    {Scenario, TwoBlocks, AcrossTwo, AfterCut} \cup
    UNION {[1..n -> [date : 1..MaxDate, text : DocTexts]] : n \in 1..MaxRecords}

---------------------------------------------------------------------------
(* Span resolution: one record, one call of either resolver on it. *)

NoCall == [fn |-> "none"]

SpanInit ==
    /\ record_text \in Texts
    /\ call = NoCall
    /\ records = <<>>
    /\ links = <<>>
    /\ passes = 0
    /\ batches = <<>>
    /\ findings = <<>>
    /\ tasks = <<>>
    /\ requests = <<>>

FindFirstMatch ==
    /\ call = NoCall
    /\ \E q \in Citations, c \in Confidences :
          call' = [fn |-> "find_first_match", quoted_text |-> q,
                   confidence |-> c,
                   result |-> find_first_match(q, c, record_text)]
    /\ UNCHANGED <<record_text, records, links, passes, batches, findings,
                   tasks, requests>>

FindSpans ==
    /\ call = NoCall
    /\ \E q \in Citations, c \in Confidences :
          call' = [fn |-> "find_spans", quoted_text |-> q,
                   confidence |-> c,
                   result |-> find_spans(q, c, record_text)]
    /\ UNCHANGED <<record_text, records, links, passes, batches, findings,
                   tasks, requests>>

SpanNext == FindFirstMatch \/ FindSpans

SpanSpec == SpanInit /\ [][SpanNext]_vars

---------------------------------------------------------------------------
(* The redundancy pass: add_batch(..., remove_duplicates=True) on one      *)
(* patient file, then once more on the documents it left.                  *)

\* The PatientRecord rows add_batch makes of the file: ids in file order.
\* original (the text as parsed) is not a column: it is kept for the
\* properties.
Parsed(input) ==
    [k \in 1..Len(input) |->
        [id |-> k, date |-> input[k].date, text |-> input[k].text,
         original |-> input[k].text]]

BatchInit ==
    /\ records = <<>>
    /\ links = <<>>
    /\ passes = 0
    /\ record_text = <<>>
    /\ call = NoCall
    /\ batches = <<>>
    /\ findings = <<>>
    /\ tasks = <<>>
    /\ requests = <<>>

\* The rows a pass leaves in the session, after the rows before it.
Store(before, r) ==
    /\ records' = r.recs
    /\ links' = before \o r.rows

AddBatch ==
    /\ passes = 0
    /\ \E input \in BatchInputs :
          Store(<<>>, RemoveDuplicates(Parsed(input), 1))
    /\ passes' = 1
    /\ UNCHANGED <<record_text, call, batches, findings,
                   tasks, requests>>

\* The pass run a second time, on its own output.
AddBatchAgain ==
    /\ passes = 1
    /\ Store(links, RemoveDuplicates(records, 2))
    /\ passes' = 2
    /\ UNCHANGED <<record_text, call, batches, findings,
                   tasks, requests>>

BatchNext == AddBatch \/ AddBatchAgain

BatchSpec == BatchInit /\ [][BatchNext]_vars

---------------------------------------------------------------------------
(* The web backend: add_batch stores one patient file as a batch, and     *)
(* process_batches resolves what the extraction quotes from the records   *)
(* of every batch not yet done.                                           *)

MaxBatches == 2       \* most batches added
MaxFileRecords == 2   \* most <zaznam> elements of a file stored by add_batch

\* The texts of the <zaznam> elements of the files.
AppTexts == {PieceA, PieceA \o PieceX}

AppInputs ==
    UNION {[1..n -> [date : 1..MaxDate, text : AppTexts]] : n \in 1..MaxFileRecords}

\* The quoted_text the extraction may return.
Quotes == {Cit10, PieceX}

\* The PatientRecord rows add_batch makes of a file for batch b: the ids go
\* on from the base rows stored before.
NewRecords(input, base, b) ==
    [k \in 1..Len(input) |->
        [id |-> base + k, batch |-> b, date |-> input[k].date,
         text |-> input[k].text, original |-> input[k].text]]

\* The rows add_batch has in its session when it commits.
BatchRows(parsed, remove_duplicates) ==
    IF remove_duplicates THEN RemoveDuplicates(parsed, 1)
    ELSE [recs |-> parsed, rows |-> <<>>]

AppInit ==
    /\ records = <<>>
    /\ links = <<>>
    /\ batches = <<>>
    /\ findings = <<>>
    /\ tasks = <<>>
    /\ requests = <<>>
    /\ passes = 0
    /\ record_text = <<>>
    /\ call = NoCall

\* db.session.commit() of add_batch.
Commit(r) ==
    /\ records' = records \o r.recs
    /\ links' = links \o r.rows

AppAddBatch ==
    /\ Len(batches) < MaxBatches
    /\ \E input \in AppInputs, remove_duplicates \in BOOLEAN :
          Commit(BatchRows(NewRecords(input, Len(records), Len(batches) + 1),
                           remove_duplicates))
    /\ batches' = Append(batches, [done |-> FALSE])
    /\ UNCHANGED <<findings, passes, record_text, call,
                   tasks, requests>>

\* What backend.process_patient got from the extraction for one batch:
\* nothing, or one quote, for a citation or for a highlight, from the
\* record-th record of the batch (a record the batch does not have stands
\* for a record_id that is not among the patient's records).
Outputs ==
    {[kind |-> "none"]} \cup
    [kind : {"finding", "highlight"}, record : 1..MaxFileRecords,
     quoted_text : Quotes]

\* patient.records of the patient of batch b.
RecordsOf(b) == SelectSeq(records, LAMBDA r : r.batch = b)

\* The row process_batch stores for a resolved span, none for None.  over
\* (the text the span was resolved against) and quoted_text are not columns:
\* they are kept for the properties.
Row(out, rec, over, span) ==
    IF span.returned = "span"
    THEN <<[kind |-> out.kind, patient_record_id |-> rec.id,
            offset_start |-> span.start_char, offset_end |-> span.end_char,
            quoted_text |-> out.quoted_text, over |-> over]>>
    ELSE <<>>

\* A quote resolved against the original text of the record, not the
\* stored one: C11 does not hold of it.
RowOfOriginal(out, rec) ==
    Row(out, rec, rec.original,
        find_first_match(out.quoted_text, "high", rec.original))

\* patient_data reads rec.text, match_all_citations and
\* match_highlight_citations resolve the quote against it.
RowOf(out, rec) ==
    Row(out, rec, rec.text, find_first_match(out.quoted_text, "high", rec.text))

\* The rows process_batch adds for the records recs of a batch.
RowsOf(out, recs) ==
    IF out.kind = "none" THEN <<>>
    ELSE IF out.record > Len(recs) THEN <<>>
    ELSE RowOf(out, recs[out.record])

\* Batch.query.where(Batch.done.is_(None)).all()
NotDone == {b \in 1..Len(batches) : ~batches[b].done}

RECURSIVE ProcessFrom(_, _)
\* "for bt in batches: process_batch(bt, backend)" from batch b on.
ProcessFrom(b, outs) ==
    IF b > Len(batches) THEN <<>>
    ELSE (IF b \in NotDone THEN RowsOf(outs[b], RecordsOf(b)) ELSE <<>>)
         \o ProcessFrom(b + 1, outs)

ProcessBatches ==
    /\ \E outs \in [NotDone -> Outputs] :
          findings' = findings \o ProcessFrom(1, outs)
    /\ batches' = [b \in 1..Len(batches) |-> [done |-> TRUE]]
    /\ UNCHANGED <<records, links, passes, record_text, call,
                   tasks, requests>>

AppNext == AppAddBatch \/ ProcessBatches

AppSpec == AppInit /\ [][AppNext]_vars

---------------------------------------------------------------------------
(* SpanMatcher.match_all_citations over the records of one patient.       *)

MaxPatientRecords == 1   \* most records of patient_data
MaxResults == 2          \* most extraction results of one call
MaxResultCitations == 2  \* most citations of one extraction result

MatchTexts == {<<" ", "A">>, <<>>}
MatchQuotes == {<<"A", " ">>, <<"a", "a">>}

\* patient_data.records: record_id is the position.
PatientRecords == [1..MaxPatientRecords -> MatchTexts]

CitationLists ==
    UNION {[1..n -> [quoted_text : MatchQuotes, confidence : {"high"}]] :
              n \in 0..MaxResultCitations}

\* The lists of extraction results: record_id MaxPatientRecords + 1 is the
\* id of no record.
ExtractionResults ==
    UNION {[1..n -> [record_id : 1..(MaxPatientRecords + 1),
                     citations : CitationLists]] : n \in 0..MaxResults}

\* "for r in patient_data.records: if r.record_id == record_id": the first
\* record of that id, if any.
FindRecord(patient_records, record_id) ==
    IF \E k \in 1..Len(patient_records) : patient_records[k].record_id = record_id
    THEN [found |-> TRUE,
          record |-> patient_records[
              Min({k \in 1..Len(patient_records) :
                       patient_records[k].record_id = record_id})]]
    ELSE [found |-> FALSE]

\* The ExtractionCitationWithSpan of a span find_first_match returned.
CitationWithSpan(citation, record_id, span) ==
    [quoted_text |-> citation.quoted_text, confidence |-> span.confidence,
     record_id |-> record_id, start_char |-> span.start_char,
     end_char |-> span.end_char]

\* Every result of find_first_match appended, None as well: C12 does not
\* hold of it.
AppendAnyway(all_spans, citation, record_id, span) ==
    Append(all_spans,
           IF span.returned = "span"
           THEN CitationWithSpan(citation, record_id, span) ELSE "None")

\* "if span: all_spans.append(span)"
AppendIfSpan(all_spans, citation, record_id, span) ==
    IF span.returned = "span"
    THEN Append(all_spans, CitationWithSpan(citation, record_id, span))
    ELSE all_spans

RECURSIVE MatchCitations(_, _, _)
\* "for citation in citations" over the record found, from all_spans on.
MatchCitations(all_spans, citations, record) ==
    IF citations = <<>> THEN all_spans
    ELSE AppendIfSpan(
             MatchCitations(all_spans,
                            SubSeq(citations, 1, Len(citations) - 1), record),
             citations[Len(citations)], record.record_id,
             find_first_match(citations[Len(citations)].quoted_text,
                              citations[Len(citations)].confidence,
                              record.text))

\* The body of "for result in extraction_results": a result whose record
\* is not found is passed over.
MatchResult(all_spans, result, hit) ==
    IF ~hit.found THEN all_spans
    ELSE MatchCitations(all_spans, result.citations, hit.record)

RECURSIVE match_all_citations(_, _)
match_all_citations(extraction_results, patient_records) ==
    IF extraction_results = <<>> THEN <<>>
    ELSE MatchResult(
             match_all_citations(
                 SubSeq(extraction_results, 1, Len(extraction_results) - 1),
                 patient_records),
             extraction_results[Len(extraction_results)],
             FindRecord(patient_records,
                        extraction_results[Len(extraction_results)].record_id))

MatchInit ==
    /\ \E texts \in PatientRecords :
          records = [k \in 1..Len(texts) |-> [record_id |-> k, text |-> texts[k]]]
    /\ call = NoCall
    /\ links = <<>>
    /\ batches = <<>>
    /\ findings = <<>>
    /\ tasks = <<>>
    /\ requests = <<>>
    /\ passes = 0
    /\ record_text = <<>>

MatchAllCitations ==
    /\ call = NoCall
    /\ \E extraction_results \in ExtractionResults :
          call' = [fn |-> "match_all_citations",
                   extraction_results |-> extraction_results,
                   result |-> match_all_citations(extraction_results, records)]
    /\ UNCHANGED <<record_text, records, links, passes, batches, findings,
                   tasks, requests>>

MatchNext == MatchAllCitations

MatchSpec == MatchInit /\ [][MatchNext]_vars

---------------------------------------------------------------------------
(* find_duplicates on one pair of texts. *)

MaxDupLen == 4    \* longest enumerated text of find_duplicates
MaxMinLen == 3    \* min_len is 1..MaxMinLen, or the default

DupAlphabet == {"a", "b"}

\* value_text and ref_text: the short texts, and the documents of pieces.
DupTexts ==
    UNION {[1..k -> DupAlphabet] : k \in 0..MaxDupLen} \cup DocTexts

MinLens == 1..MaxMinLen \cup {DefaultMinLen}

DupInit ==
    /\ record_text \in DupTexts
    /\ call = NoCall
    /\ records = <<>>
    /\ links = <<>>
    /\ batches = <<>>
    /\ findings = <<>>
    /\ tasks = <<>>
    /\ requests = <<>>
    /\ passes = 0

\* find_duplicates(value_text, ref_text, min_len), record_text the ref_text.
FindDuplicates ==
    /\ call = NoCall
    /\ \E value_text \in DupTexts, min_len \in MinLens :
          call' = [fn |-> "find_duplicates", value_text |-> value_text,
                   min_len |-> min_len,
                   result |-> find_duplicates(value_text, record_text, min_len)]
    /\ UNCHANGED <<record_text, records, links, passes, batches, findings,
                   tasks, requests>>

DupNext == FindDuplicates

DupSpec == DupInit /\ [][DupNext]_vars

---------------------------------------------------------------------------
(* The while loop of find_spans, statement by statement.  call holds the   *)
(* locals of the running call; pc is the statement it stands at: "while"   *)
(* (the loop condition), "if" (the test of pos), "else" (the test of       *)
(* fuzzy_result), "done" (find_spans has returned spans).                  *)

LoopTexts == Strs(MaxTextLen) \cup {TextExactThenNear}

LoopCitations == Strs(MaxCitLen) \cup {Cit10}

\* A confidence an approximate match lowers, and one it keeps.
LoopConfidences == {"high", "medium"}

LoopInit ==
    /\ record_text \in LoopTexts
    /\ call = NoCall
    /\ records = <<>>
    /\ links = <<>>
    /\ passes = 0
    /\ batches = <<>>
    /\ findings = <<>>
    /\ tasks = <<>>
    /\ requests = <<>>

\* The locals of find_spans: pos and fuzzy_result are those of the
\* iteration that runs.
Locals(q, c, pc, start, match_index, spans, pos, fuzzy_result) ==
    [fn |-> "find_spans", quoted_text |-> q, confidence |-> c, pc |-> pc,
     normalized_citation |-> normalize_whitespace(q),
     start |-> start, match_index |-> match_index, spans |-> spans,
     pos |-> pos, fuzzy_result |-> fuzzy_result]

At(pc) == call.fn = "find_spans" /\ call.pc = pc

\* A match_index that stays as it is: C26 does not hold of it.
SameMatchIndex(match_index) == match_index

\* match_index += 1
NextMatchIndex(match_index) == match_index + 1

\* spans.append(TextSpan(...)); start = end; match_index += 1
Appended(pos, end, confidence, how) ==
    [call EXCEPT !.pc = "while", !.start = end,
                 !.match_index = NextMatchIndex(call.match_index),
                 !.spans = Append(call.spans,
                                  TextSpan(record_text, pos, end, confidence,
                                           call.match_index, how))]

\* The call of find_spans up to its loop: the empty citation returns at
\* once.
LoopEnter ==
    /\ call = NoCall
    /\ \E q \in LoopCitations, c \in LoopConfidences :
          call' = Locals(q, c, IF EmptyCitation(q) THEN "done" ELSE "while",
                         0, 0, <<>>, -1, [found |-> FALSE])
    /\ UNCHANGED <<record_text, records, links, passes, batches, findings,
                   tasks, requests>>

\* The loop condition holds: pos = record_text.lower().find(..., start)
LoopFind ==
    /\ At("while")
    /\ call.start < Len(record_text)
    /\ call' = [call EXCEPT !.pc = "if",
                   !.pos = Find(Lower(record_text),
                                Lower(call.normalized_citation), call.start)]
    /\ UNCHANGED <<record_text, records, links, passes, batches, findings,
                   tasks, requests>>

\* The loop condition fails: return spans.
LoopExit ==
    /\ At("while")
    /\ ~(call.start < Len(record_text))
    /\ call' = [call EXCEPT !.pc = "done"]
    /\ UNCHANGED <<record_text, records, links, passes, batches, findings,
                   tasks, requests>>

\* pos != -1: the span of the exact match is appended.
LoopExact ==
    /\ At("if")
    /\ call.pos # -1
    /\ call' = Appended(call.pos, call.pos + Len(call.normalized_citation),
                        call.confidence, "exact")
    /\ UNCHANGED <<record_text, records, links, passes, batches, findings,
                   tasks, requests>>

\* pos == -1: fuzzy_result = self._fuzzy_find(..., record_text[start:])
LoopFuzzyFind ==
    /\ At("if")
    /\ call.pos = -1
    /\ call' = [call EXCEPT !.pc = "else",
                   !.fuzzy_result =
                       fuzzy_find(call.normalized_citation,
                                  Slice(record_text, call.start,
                                        Len(record_text)))]
    /\ UNCHANGED <<record_text, records, links, passes, batches, findings,
                   tasks, requests>>

\* fuzzy_result is a match: its span is appended.
LoopFuzzy ==
    /\ At("else")
    /\ call.fuzzy_result.found
    /\ call' = Appended(call.start + call.fuzzy_result.start,
                        call.start + call.fuzzy_result.end,
                        CalculatorFuzzyConfidence(call.confidence), "fuzzy")
    /\ UNCHANGED <<record_text, records, links, passes, batches, findings,
                   tasks, requests>>

\* fuzzy_result is None: break, and return spans.
LoopBreak ==
    /\ At("else")
    /\ ~call.fuzzy_result.found
    /\ call' = [call EXCEPT !.pc = "done"]
    /\ UNCHANGED <<record_text, records, links, passes, batches, findings,
                   tasks, requests>>

\* The statements other than the call of _fuzzy_find.
LoopStatement ==
    \/ LoopEnter
    \/ LoopFind
    \/ LoopExit
    \/ LoopExact
    \/ LoopFuzzy
    \/ LoopBreak

LoopNext == LoopStatement \/ LoopFuzzyFind

\* The call stands before _fuzzy_find: LoopFuzzyFind is enabled in these
\* states and in no other, and leaves them.
BeforeFuzzyFind == At("if") /\ call.pos = -1

\* The interpreter runs the call to its end: a statement that can be run is
\* run, and _fuzzy_find, a loop over range(...), returns.  The fairness of
\* LoopFuzzyFind is stated through its guard.
LoopSpec ==
    /\ LoopInit
    /\ [][LoopNext]_vars
    /\ WF_vars(LoopStatement)
    /\ []<>~BeforeFuzzyFind

---------------------------------------------------------------------------
(* FeatureExtractor (llm_extraction/extraction.py): one call of            *)
(* extract_patient_features, one task of _extract_single_record a record.  *)
(* A task's pc is "jitter" (before the semaphore), "try" (before the call  *)
(* of the model), "sleep" (in the delay after a failure), "returned".      *)

MaxExtractRecords == 2   \* most records of the patient

\* MAX_CONCURRENT_REQUESTS, max_retries
MaxConcurrentRequests == 20
MaxRetries == 3

\* The citation lists a parsed response holds.
ParsedCitations == {<<>>, <<"citation">>}

Pending == [kind |-> "pending"]

\* The dict _extract_single_record returns.
RecordResult(record_id, citations) ==
    [kind |-> "dict", record_id |-> record_id, citations |-> citations]

\* What falling off the end of the function returns.
ReturnsNone == [kind |-> "None"]

\* The task of record record_id as asyncio creates it.  calls, failures and
\* sleeps count the calls of the model, those that raised and the delays;
\* collected tells whether as_completed has handed the result over.
NewTask(record_id) ==
    [record_id |-> record_id, pc |-> "jitter", attempt |-> 0, calls |-> 0,
     failures |-> 0, sleeps |-> 0, result |-> Pending, collected |-> FALSE]

ExtractInit ==
    /\ tasks = <<>>
    /\ call = NoCall
    /\ record_text = <<>>
    /\ records = <<>>
    /\ links = <<>>
    /\ passes = 0
    /\ batches = <<>>
    /\ findings = <<>>
    /\ requests = <<>>

Extracting == call.fn = "extract_patient_features" /\ call.pc = "gather"

\* The tasks inside "async with semaphore".
Holders == {i \in 1..Len(tasks) : tasks[i].pc \in {"try", "sleep"}}

\* extract_patient_features up to the loop over as_completed.
ExtractEnter ==
    /\ call = NoCall
    /\ \E n \in 0..MaxExtractRecords :
          tasks' = [i \in 1..n |-> NewTask(i)]
    /\ call' = [fn |-> "extract_patient_features", pc |-> "gather",
                results |-> <<>>]
    /\ UNCHANGED <<record_text, records, links, passes, batches, findings,
                   requests>>

\* The jitter is over and the semaphore is acquired.
Acquire(i) ==
    /\ tasks[i].pc = "jitter"
    /\ Cardinality(Holders) < MaxConcurrentRequests
    /\ tasks' = [tasks EXCEPT ![i].pc = "try"]
    /\ UNCHANGED <<record_text, call, records, links, passes, batches,
                   findings, requests>>

\* The call of the model returns a parsed response: the dict is returned.
CallSucceeds(i) ==
    /\ tasks[i].pc = "try"
    /\ \E citations \in ParsedCitations :
          tasks' = [tasks EXCEPT
                       ![i].calls = @ + 1,
                       ![i].pc = "returned",
                       ![i].result = RecordResult(tasks[i].record_id,
                                                  citations)]
    /\ UNCHANGED <<record_text, call, records, links, passes, batches,
                   findings, requests>>

\* A delay that follows every failure, the last one too: C28 does not hold
\* of it.
RetryAfterEvery(attempt) == attempt < MaxRetries

\* attempt < max_retries - 1
RetryAfter(attempt) == attempt < MaxRetries - 1

\* The call of the model, or the reading of its response, raises: a delay,
\* or after the last attempt the dict with no citations.
CallFails(i) ==
    /\ tasks[i].pc = "try"
    /\ tasks' = [tasks EXCEPT
                    ![i].calls = @ + 1,
                    ![i].failures = @ + 1,
                    ![i].pc = IF RetryAfter(tasks[i].attempt)
                              THEN "sleep" ELSE "returned",
                    ![i].sleeps = IF RetryAfter(tasks[i].attempt)
                                  THEN @ + 1 ELSE @,
                    ![i].result = IF RetryAfter(tasks[i].attempt)
                                  THEN @
                                  ELSE RecordResult(tasks[i].record_id, <<>>)]
    /\ UNCHANGED <<record_text, call, records, links, passes, batches,
                   findings, requests>>

\* The delay is over: the next attempt of range(max_retries), or the end
\* of the loop and of the function.
Wake(i) ==
    /\ tasks[i].pc = "sleep"
    /\ tasks' = [tasks EXCEPT
                    ![i].attempt = @ + 1,
                    ![i].pc = IF tasks[i].attempt + 1 < MaxRetries
                              THEN "try" ELSE "returned",
                    ![i].result = IF tasks[i].attempt + 1 < MaxRetries
                                  THEN @ ELSE ReturnsNone]
    /\ UNCHANGED <<record_text, call, records, links, passes, batches,
                   findings, requests>>

\* as_completed hands over the result of a task that has returned:
\* results.append(result)
Collect(i) ==
    /\ Extracting
    /\ tasks[i].pc = "returned"
    /\ ~tasks[i].collected
    /\ tasks' = [tasks EXCEPT ![i].collected = TRUE]
    /\ call' = [call EXCEPT !.results = Append(@, tasks[i].result)]
    /\ UNCHANGED <<record_text, records, links, passes, batches, findings,
                   requests>>

\* Every task has been handed over: return results.
ExtractReturn ==
    /\ Extracting
    /\ \A i \in 1..Len(tasks) : tasks[i].collected
    /\ call' = [call EXCEPT !.pc = "returned"]
    /\ UNCHANGED <<record_text, records, links, passes, batches, findings,
                   tasks, requests>>

ExtractNext ==
    \/ ExtractEnter
    \/ \E i \in 1..Len(tasks) : Acquire(i)
    \/ \E i \in 1..Len(tasks) : CallSucceeds(i)
    \/ \E i \in 1..Len(tasks) : CallFails(i)
    \/ \E i \in 1..Len(tasks) : Wake(i)
    \/ \E i \in 1..Len(tasks) : Collect(i)
    \/ ExtractReturn

\* The event loop runs every task that can run; a call of the model
\* returns or raises.
ExtractSpec == ExtractInit /\ [][ExtractNext]_vars /\ WF_vars(ExtractNext)

---------------------------------------------------------------------------
(* /api/process served to several clients (web_backend/__init__.py,        *)
(* web_backend/run.py): every request runs process_batches in its own      *)
(* thread and session, one process_batch a step.                           *)

MaxRequests == 2   \* most requests of /api/process

\* The patient file add_batch reads at start-up.
ServeInputs == {<<[date |-> 1, text |-> PieceA \o PieceX]>>}

\* run.add_batch(files, Question.query.all()) of the start-up, before any
\* request is served: remove_duplicates is left at its default, False.
StartupAddBatch ==
    /\ requests = <<>>
    /\ Len(batches) < MaxBatches
    /\ \E input \in ServeInputs :
          Commit(BatchRows(NewRecords(input, Len(records), Len(batches) + 1),
                           FALSE))
    /\ batches' = Append(batches, [done |-> FALSE])
    /\ UNCHANGED <<findings, passes, record_text, call, tasks, requests>>

RECURSIVE Ascending(_, _)
\* The numbers of S from b on, in ascending order.
Ascending(S, b) ==
    IF b > Len(batches) THEN <<>>
    ELSE (IF b \in S THEN <<b>> ELSE <<>>) \o Ascending(S, b + 1)

\* process_api calls process_batches, which reads the batches whose done is
\* null: batches = Batch.query.where(Batch.done.is_(None)).all().  pending
\* are the batches the loop has yet to process; processed (the batches it
\* has processed, and whether done was set when it did) is kept for the
\* properties.
ProcessApi ==
    /\ Len(requests) < MaxRequests
    /\ requests' = Append(requests,
                          [pc |-> "loop", pending |-> Ascending(NotDone, 1),
                           processed |-> <<>>])
    /\ UNCHANGED <<record_text, call, records, links, passes, batches,
                   findings, tasks>>

\* process_batch(bt, backend) for the next batch of request r: the rows of
\* the extraction are added, done is set, the session is committed.
ProcessBatch(r) ==
    /\ requests[r].pc = "loop"
    /\ requests[r].pending # <<>>
    /\ \E out \in Outputs :
          findings' = findings
                      \o RowsOf(out, RecordsOf(Head(requests[r].pending)))
    /\ batches' = [batches EXCEPT ![Head(requests[r].pending)].done = TRUE]
    /\ requests' =
          [requests EXCEPT
              ![r].pending = Tail(@),
              ![r].processed =
                  Append(@, [batch |-> Head(requests[r].pending),
                             done |-> batches[Head(requests[r].pending)].done])]
    /\ UNCHANGED <<record_text, call, records, links, passes, tasks>>

\* The loop of process_batches is over: return redirect('/').
Redirect(r) ==
    /\ requests[r].pc = "loop"
    /\ requests[r].pending = <<>>
    /\ requests' = [requests EXCEPT ![r].pc = "redirect"]
    /\ UNCHANGED <<record_text, call, records, links, passes, batches,
                   findings, tasks>>

ServeNext ==
    \/ StartupAddBatch
    \/ ProcessApi
    \/ \E r \in 1..Len(requests) : ProcessBatch(r)
    \/ \E r \in 1..Len(requests) : Redirect(r)

ServeSpec == AppInit /\ [][ServeNext]_vars

---------------------------------------------------------------------------
(* XMLParser.parse_patient_file on the <zaznam> elements of one <pacient>. *)

MaxZaznam == 3   \* most <zaznam> elements of the file

\* The text attribute of an element: None for an empty element, or a str.
\* A date is the sequence of its digits, a text the sequence of its letters.
NoText == [none |-> TRUE, str |-> <<>>]

Str(s) == [none |-> FALSE, str |-> s]

\* elem.text or ""
OrEmpty(t) == IF t.none \/ t.str = <<>> THEN <<>> ELSE t.str

DatumTexts == {NoText, Str(<<1, 0>>), Str(<<2>>)}

TextTexts == {NoText, Str(<<>>), Str(<<"a">>), Str(<<"b">>)}

TypText == Str(<<"t">>)

\* zaznam.find(name) is <<>> for None and <<elem.text>> for an element.
\* The elements with all three children, and the ones that lack a child.
ZaznamElements ==
    {[datum |-> <<d>>, typ |-> <<TypText>>, text |-> <<x>>] :
        d \in DatumTexts, x \in TextTexts}
    \cup {[datum |-> <<>>, typ |-> <<TypText>>, text |-> <<Str(<<"a">>)>>],
          [datum |-> <<Str(<<2>>)>>, typ |-> <<>>, text |-> <<Str(<<"a">>)>>],
          [datum |-> <<Str(<<2>>)>>, typ |-> <<TypText>>, text |-> <<>>]}

PatientFiles == UNION {[1..k -> ZaznamElements] : k \in 0..MaxZaznam}

PatientIds == {"HACK01"}

\* hashlib.sha256(text.encode('utf-8')).hexdigest(): a digest of the text,
\* equal for equal texts only.
Sha256(text) == <<"sha256", text>>

\* datum_elem is None or typ_elem is None or text_elem is None
Incomplete(zaznam) ==
    zaznam.datum = <<>> \/ zaznam.typ = <<>> \/ zaznam.text = <<>>

\* f"{patient_id}_{idx}"
RecordId(patient_id, idx) == <<patient_id, idx>>

MedicalRecord(patient_id, n, zaznam) ==
    [record_id |-> RecordId(patient_id, n),
     patient_id |-> patient_id,
     date |-> OrEmpty(zaznam.datum[1]),
     record_type |-> OrEmpty(zaznam.typ[1]),
     text |-> OrEmpty(zaznam.text[1]),
     text_hash |-> Sha256(OrEmpty(zaznam.text[1]))]

\* The for loop over pacient.findall('zaznam'), from element idx on.
RECURSIVE ParseLoop(_, _, _, _, _, _)
ParseLoop(patient_id, file, idx, records_, seen_hashes, duplicate_count) ==
    IF idx > Len(file)
    THEN [records |-> records_, duplicate_count |-> duplicate_count]
    ELSE IF Incomplete(file[idx])
    THEN ParseLoop(patient_id, file, idx + 1, records_, seen_hashes,
                   duplicate_count)
    ELSE IF Sha256(OrEmpty(file[idx].text[1])) \in seen_hashes
    THEN ParseLoop(patient_id, file, idx + 1, records_, seen_hashes,
                   duplicate_count + 1)
    ELSE ParseLoop(patient_id, file, idx + 1,
                   Append(records_,
                          MedicalRecord(patient_id, Len(records_), file[idx])),
                   seen_hashes \cup {Sha256(OrEmpty(file[idx].text[1]))},
                   duplicate_count)

\* a < b for two str: at the first place they differ, or a a proper prefix.
RECURSIVE StrLess(_, _)
StrLess(a, b) ==
    IF b = <<>> THEN FALSE
    ELSE IF a = <<>> THEN TRUE
    ELSE IF Head(a) # Head(b) THEN Head(a) < Head(b)
    ELSE StrLess(Tail(a), Tail(b))

\* r put after the records of sorted whose date is not greater: the sort
\* of list.sort is stable.
RECURSIVE InsertByKey(_, _)
InsertByKey(sorted, r) ==
    IF sorted = <<>> THEN <<r>>
    ELSE IF StrLess(r.date, Head(sorted).date) THEN <<r>> \o sorted
    ELSE <<Head(sorted)>> \o InsertByKey(Tail(sorted), r)

\* Replaces SortRecords in the mutant run: the records left in file order.
FileOrder(records_) == records_

\* records.sort(key=lambda r: r.date)
RECURSIVE SortRecords(_)
SortRecords(records_) ==
    IF records_ = <<>> THEN <<>>
    ELSE InsertByKey(SortRecords(SubSeq(records_, 1, Len(records_) - 1)),
                      records_[Len(records_)])

\* for idx, record in enumerate(records): record.record_id = ...
ReassignIds(patient_id, records_) ==
    [i \in 1..Len(records_) |->
        [records_[i] EXCEPT !.record_id = RecordId(patient_id, i - 1)]]

PatientData(patient_id, parsed) ==
    [patient_id |-> patient_id,
     records |-> ReassignIds(patient_id, SortRecords(parsed.records)),
     duplicate_count |-> parsed.duplicate_count]

parse_patient_file(patient_id, file) ==
    PatientData(patient_id, ParseLoop(patient_id, file, 1, <<>>, {}, 0))

ParseInit ==
    /\ record_text = <<>>
    /\ call = NoCall
    /\ records = <<>>
    /\ links = <<>>
    /\ batches = <<>>
    /\ findings = <<>>
    /\ tasks = <<>>
    /\ requests = <<>>
    /\ passes = 0

\* parse_patient_file(xml_path), the file of xml_path holding patient_id
\* and the elements of file.
ParsePatientFile ==
    /\ call = NoCall
    /\ \E patient_id \in PatientIds, file \in PatientFiles :
          call' = [fn |-> "parse_patient_file", patient_id |-> patient_id,
                   file |-> file,
                   result |-> parse_patient_file(patient_id, file)]
    /\ UNCHANGED <<record_text, records, links, passes, batches, findings,
                   tasks, requests>>

ParseNext == ParsePatientFile

ParseSpec == ParseInit /\ [][ParseNext]_vars

---------------------------------------------------------------------------
(* Properties of span resolution (SpanSpec). *)

IsFirstMatch == call.fn = "find_first_match"
IsFindSpans == call.fn = "find_spans"

\* S occurs in D as a contiguous substring.
IsSubstring(S, D) ==
    \E p \in 0..(Len(D) - Len(S)) : Slice(D, p, p + Len(S)) = S

HasIDot(s) == \E i \in 1..Len(s) : s[i] = IDot

StartsWithSpace(s) == s # <<>> /\ IsSpace(s[1])

\* The text of record_text a returned span covers.
Covered(span) == Slice(record_text, span.start_char, span.end_char)

\* C1: find_first_match on a citation that is a contiguous substring S of
\* the record text D returns a span, and D[start_char:end_char] lowercased
\* is S lowercased.  Stated for the S that begin and end with a character
\* that is not whitespace, and for D and S whose characters keep their
\* length in lower case.
C1_RoundTrip ==
    (/\ IsFirstMatch
     /\ Len(call.quoted_text) >= 1
     /\ Strip(call.quoted_text) = call.quoted_text
     /\ ~HasIDot(record_text)
     /\ IsSubstring(call.quoted_text, record_text))
    => /\ call.result.returned = "span"
       /\ Lower(Covered(call.result)) = Lower(call.quoted_text)

\* C5: every span either resolver returns has
\* 0 <= start_char < end_char <= len(record.text).
InBounds(span) ==
    /\ 0 <= span.start_char
    /\ span.start_char < span.end_char
    /\ span.end_char <= Len(record_text)

C5_SpanBounds ==
    /\ (IsFirstMatch /\ call.result.returned = "span") => InBounds(call.result)
    /\ IsFindSpans =>
          \A k \in 1..Len(call.result.spans) : InBounds(call.result.spans[k])

\* The citation and a part of the record that starts at offset p differ in
\* the lengths of their whitespace runs only.
SameButWhitespace(p) ==
    \E e \in (p + 1)..Len(record_text) :
        /\ ~IsSpace(record_text[p + 1])
        /\ ~IsSpace(record_text[e])
        /\ normalize_whitespace(Slice(record_text, p, e))
              = normalize_whitespace(call.quoted_text)

\* The returned span covers the citation's text, up to the lengths of
\* whitespace runs.
CoversCitation(span) ==
    normalize_whitespace(Covered(span)) = normalize_whitespace(call.quoted_text)

\* C6: a citation that differs from a part of the record only in the
\* lengths of whitespace runs (several for one, or one for several) resolves,
\* in either resolver, to a span covering that text.  Stated for records
\* that do not start with whitespace and for texts whose characters keep
\* their length in lower case.
C6_WhitespaceTolerance ==
    (/\ call.fn # "none"
     /\ ~HasIDot(record_text)
     /\ ~StartsWithSpace(record_text)
     /\ normalize_whitespace(call.quoted_text) # <<>>
     /\ \E p \in 0..(Len(record_text) - 1) : SameButWhitespace(p))
    => /\ IsFirstMatch =>
             /\ call.result.returned = "span"
             /\ CoversCitation(call.result)
       /\ IsFindSpans =>
             /\ call.result.spans # <<>>
             /\ \A k \in 1..Len(call.result.spans) :
                    CoversCitation(call.result.spans[k])

\* C7 as claimed: a span of a fuzzy match carries "low", a span of an exact
\* match the citation's confidence, in both resolvers.
ClaimedConfidence(span) ==
    span.confidence = IF span.how = "fuzzy" THEN "low" ELSE call.confidence

C7_DowngradeToLow ==
    /\ (IsFirstMatch /\ call.result.returned = "span")
          => ClaimedConfidence(call.result)
    /\ IsFindSpans =>
          \A k \in 1..Len(call.result.spans) :
              ClaimedConfidence(call.result.spans[k])

\* C7 (amended): a span of an exact match carries the citation's
\* confidence; a span of a fuzzy match carries, from find_spans, "low" for a
\* citation of confidence "high" and the citation's confidence otherwise,
\* and from find_first_match the citation's confidence.
C7_Confidence ==
    /\ (IsFirstMatch /\ call.result.returned = "span")
          => call.result.confidence = call.confidence
    /\ IsFindSpans =>
          \A k \in 1..Len(call.result.spans) :
              call.result.spans[k].confidence =
                  IF call.result.spans[k].how = "fuzzy" /\ call.confidence = "high"
                  THEN "low" ELSE call.confidence

\* A fuzzy match by find_spans of a citation of confidence "medium", whose
\* span keeps "medium".
C7_Witness ==
    /\ IsFindSpans
    /\ call.confidence = "medium"
    /\ \E k \in 1..Len(call.result.spans) :
           /\ call.result.spans[k].how = "fuzzy"
           /\ call.result.spans[k].confidence = "medium"

\* C8 as claimed: an empty or whitespace-only citation yields no span, and
\* no search of the record text is run for it.
C8_NoSearch ==
    (call.fn # "none" /\ EmptyCitation(call.quoted_text))
    => /\ IsFirstMatch =>
             call.result.returned = "None" /\ call.result.searched = {}
       /\ IsFindSpans =>
             call.result.spans = <<>> /\ ~call.result.searched

\* C8 (amended): an empty or whitespace-only citation yields no span.
\* find_spans returns the empty list before any search; find_first_match
\* runs the exact search, which finds the empty pattern at offset 0, and
\* returns None through its guard on (0, 0), the fuzzy search not run.
C8_EmptyRejected ==
    (call.fn # "none" /\ EmptyCitation(call.quoted_text))
    => /\ IsFirstMatch =>
             /\ call.result.returned = "None"
             /\ call.result.how = "guard"
             /\ call.result.searched = {"exact"}
       /\ IsFindSpans =>
             call.result.spans = <<>> /\ ~call.result.searched

\* A whitespace-only citation resolved against a record that has text.
C8_Witness ==
    /\ IsFirstMatch
    /\ call.quoted_text # <<>>
    /\ EmptyCitation(call.quoted_text)
    /\ Len(record_text) > 1
    /\ call.result.returned = "None"

\* The citation occurs in text exactly: the normalized, lowercased citation
\* is a part of text lowercased.
OccursIn(text) ==
    IsSubstring(Lower(normalize_whitespace(call.quoted_text)), Lower(text))

\* Some window of text, as long as the pattern, reaches the threshold.
WindowReaches(pattern, text) ==
    \E i \in 0..(Len(text) - Len(pattern)) :
        RatioAtLeastThreshold(pattern, Slice(text, i, i + Len(pattern)))

\* C9: neither resolver raises: find_first_match returns a span or None,
\* find_spans a list; and when the citation occurs in the record neither
\* exactly nor approximately, the result is None, or the empty list.
C9_NoMatchIsValue ==
    /\ IsFirstMatch =>
          /\ call.result.returned \in {"span", "None"}
          /\ (/\ ~OccursIn(normalize_whitespace(record_text))
              /\ ~WindowReaches(Lower(normalize_whitespace(call.quoted_text)),
                                Lower(normalize_whitespace(record_text))))
             => call.result.returned = "None"
    /\ IsFindSpans =>
          /\ call.result.returned = "list"
          /\ (/\ ~OccursIn(record_text)
              /\ \A s \in 0..Len(record_text) :
                    ~WindowReaches(Lower(normalize_whitespace(call.quoted_text)),
                                   Lower(Slice(record_text, s, Len(record_text)))))
             => call.result.spans = <<>>

\* A citation longer than the record, and one resolved against the empty
\* record: None is returned.
C9_Witness ==
    /\ IsFirstMatch
    /\ normalize_whitespace(call.quoted_text) # <<>>
    /\ Len(call.quoted_text) > Len(record_text)
    /\ call.result.returned = "None"
    /\ call.result.how = "nomatch"

\* C10: the guard of find_first_match discards a match only when its mapped
\* start and end are both 0; a citation whose normalized text is not empty
\* is never dropped by it, and when it matches at the start of the record it
\* is returned with start_char = 0 and end_char > 0.
C10_GuardOnlyDegenerate ==
    IsFirstMatch =>
        /\ call.result.how = "guard" => call.result.discarded = <<0, 0>>
        /\ normalize_whitespace(call.quoted_text) # <<>> =>
              /\ call.result.how # "guard"
              /\ Find(Lower(normalize_whitespace(record_text)),
                      Lower(normalize_whitespace(call.quoted_text)), 0) = 0
                 => /\ call.result.returned = "span"
                    /\ call.result.start_char = 0
                    /\ call.result.end_char > 0

\* A match at the very start of the record, returned.
C10_Witness ==
    /\ IsFirstMatch
    /\ normalize_whitespace(call.quoted_text) # <<>>
    /\ call.result.returned = "span"
    /\ call.result.start_char = 0
    /\ call.result.end_char > 0

---------------------------------------------------------------------------
(* Properties of the redundancy pass (BatchSpec). *)

\* Where the record of the given id stands in the date order.
PosOf(id) == CHOOSE k \in 1..Len(records) : records[k].id = id

\* The text the pass left in the record of the given id.
TextOf(id) == records[PosOf(id)].text

\* C2: the pass run a second time on the documents it has edited finds no
\* block of min_len or more: it records no further link (and so cuts no
\* text, a cut and its link being made together).
C2_Idempotent ==
    passes = 2 => \A k \in 1..Len(links) : links[k].pass = 1

\* What C3 asks of one link.
RefersToEarlier(l) ==
    /\ PosOf(l.duplicate_of) < PosOf(l.patient_record_id)
    /\ 0 <= l.offset_start
    /\ l.offset_start < l.offset_end
    /\ l.offset_end <= Len(TextOf(l.duplicate_of))
    /\ Slice(TextOf(l.duplicate_of), l.offset_start, l.offset_end)
          = l.removed_text

\* C3: every link made for a document names as duplicate_of a document
\* before it in date order, and the characters cut are that document's text
\* at [offset_start, offset_end), with
\* 0 <= offset_start < offset_end <= its length.
C3_LinkRefersEarlier ==
    passes = 1 => \A k \in 1..Len(links) : RefersToEarlier(links[k])

\* The batch is the worked example's two documents.
IsScenario ==
    /\ Len(records) = 2
    /\ records[1].original = ScenarioFirst
    /\ records[2].original = ScenarioSecond

\* C4: on the worked example the pass records exactly one link, whose
\* duplicate_of is the first document and whose offset_start is 0, and the
\* second document no longer contains the first document's sentence.
C4_Scenario ==
    (passes = 1 /\ IsScenario)
    => /\ Len(links) = 1
       /\ links[1].patient_record_id = records[2].id
       /\ links[1].duplicate_of = records[1].id
       /\ links[1].offset_start = 0
       /\ ~IsSubstring(ScenarioFirst, records[2].text)

---------------------------------------------------------------------------
(* Properties of the web backend (AppSpec). *)

\* The row was resolved against the text now stored for its record, and its
\* offsets are those of the quote in that text.
OverStoredText(f) ==
    /\ f.over = TextOf(f.patient_record_id)
    /\ RowOf(f, records[PosOf(f.patient_record_id)]) = <<f>>

\* A stored record is never changed.
RecordsKept ==
    /\ Len(records') >= Len(records)
    /\ \A k \in 1..Len(records) : records'[k] = records[k]

\* C11: in any sequence of add_batch and process_batches calls a stored
\* record's text never changes (it is edited inside add_batch only, before
\* the commit), and every Finding and Highlight row was resolved against,
\* and indexes into, the text stored for its record, the one the
\* redundancy pass left.
C11_SpansOverStoredText ==
    /\ [](\A k \in 1..Len(findings) : OverStoredText(findings[k]))
    /\ [][RecordsKept]_vars

\* A row for a record the pass has edited, whose quote stands elsewhere in
\* the original text.
C11_Witness ==
    \E k \in 1..Len(findings) :
        /\ TextOf(findings[k].patient_record_id)
              # records[PosOf(findings[k].patient_record_id)].original
        /\ RowOfOriginal(findings[k], records[PosOf(findings[k].patient_record_id)])
              # <<findings[k]>>

---------------------------------------------------------------------------
(* Properties of match_all_citations (MatchSpec). *)

RECURSIVE Flat(_)
\* The citations of the extraction results in input order, each with the
\* record_id of its result.
Flat(extraction_results) ==
    IF extraction_results = <<>> THEN <<>>
    ELSE [k \in 1..Len(extraction_results[1].citations) |->
             [record_id |-> extraction_results[1].record_id,
              citation |-> extraction_results[1].citations[k]]]
         \o Flat(Tail(extraction_results))

\* What find_first_match alone gives for the citation, in the record of
\* its record_id among the patient's records.
AloneSpan(p) ==
    find_first_match(p.citation.quoted_text, p.citation.confidence,
                     records[p.record_id].text)

\* The citation's record is among the patient's, and find_first_match
\* succeeds on it.
Succeeds(p) ==
    /\ p.record_id \in 1..Len(records)
    /\ AloneSpan(p).returned = "span"

Succeeding(flat) == SelectSeq(flat, Succeeds)

\* The spans of the given citations, each as find_first_match alone gives it.
SpansOf(ps) ==
    [k \in 1..Len(ps) |->
        CitationWithSpan(ps[k].citation, ps[k].record_id, AloneSpan(ps[k]))]

---------------------------------------------------------------------------
(* Properties of find_duplicates (DupSpec). *)

\* The block is in both texts, the same characters in each.
CommonSubstring(d) ==
    /\ 0 <= d.offset
    /\ d.offset + d.size <= Len(call.value_text)
    /\ 0 <= d.offset_ref
    /\ d.offset_ref + d.size <= Len(record_text)
    /\ Slice(call.value_text, d.offset, d.offset + d.size)
          = Slice(record_text, d.offset_ref, d.offset_ref + d.size)

\* C13: find_duplicates returns only blocks of size >= min_len, in
\* ascending order of their offset in value_text, each a common substring:
\* value_text[offset:offset+size] = ref_text[offset_ref:offset_ref+size].
C13_LongCommonBlocks ==
    call.fn = "find_duplicates" =>
        /\ \A k \in 1..Len(call.result) :
              /\ call.result[k].size >= call.min_len
              /\ CommonSubstring(call.result[k])
        /\ \A k \in 1..(Len(call.result) - 1) :
              call.result[k].offset < call.result[k + 1].offset

\* A block returned and a shorter one left out.
C13_Witness ==
    /\ call.fn = "find_duplicates"
    /\ call.min_len > 1
    /\ Len(call.result) >= 1
    /\ Len(get_matching_blocks(call.value_text, record_text)) > Len(call.result)

---------------------------------------------------------------------------
(* Properties of the redundancy pass, continued (BatchSpec). *)

\* The place in dividers of the last divider <= offset_ref.
LastDividerAtMost(dividers, offset_ref) ==
    Max({k \in 1..Len(dividers) : dividers[k] <= offset_ref})

\* The link names the record at that place of the date order, with the
\* offset of the block in it.
ChosenByDivider(l, chosen) ==
    /\ l.duplicate_of = records[chosen].id
    /\ l.offset_start = l.offset_ref - l.dividers[chosen]
    /\ l.offset_start >= 0

\* C14: for every block the reference document chosen is the one with the
\* last divider <= offset_ref, and the offset recorded for the block in it,
\* offset_ref - dividers[chosen], is >= 0.
C14_DividerLookup ==
    passes = 1 =>
        \A k \in 1..Len(links) :
            ChosenByDivider(links[k],
                            LastDividerAtMost(links[k].dividers,
                                              links[k].offset_ref))

---------------------------------------------------------------------------
(* Properties of the index map of _map_to_original_positions (SpanSpec). *)

\* find_first_match found a match and mapped it: the map was built, over
\* record_text.
MapBuilt == IsFirstMatch /\ call.result.how # "nomatch"

\* C15: the map from normalized to original offsets has exactly
\* len(normalize_whitespace(text)) + 1 entries, for every original text.
C15_IndexMapSize ==
    MapBuilt =>
        Len(norm_to_orig(record_text)) = Len(normalize_whitespace(record_text)) + 1

\* The original character at offset o is the one the normalized character c
\* stands for: c itself, or for the space the first whitespace character
\* of a run.
StandsFor(c, o) ==
    /\ o < Len(record_text)
    /\ IF c = " "
       THEN IsSpace(record_text[o + 1]) /\ (o = 0 \/ ~IsSpace(record_text[o]))
       ELSE record_text[o + 1] = c

\* C16: for every i < len(normalized_text) the original character at
\* index_map[i] is the one normalized_text[i] stands for.
C16_IndexMapAlignment ==
    MapBuilt =>
        \A i \in 1..Len(normalize_whitespace(record_text)) :
            StandsFor(normalize_whitespace(record_text)[i],
                      norm_to_orig(record_text)[i])

---------------------------------------------------------------------------
(* Properties of the cuts of the redundancy pass (BatchSpec). *)

\* The TextDuplicate rows made for the record of the given id, in order.
LinksOf(id) == SelectSeq(links, LAMBDA l : l.patient_record_id = id)

\* The blocks of the one find_duplicates call on the unedited text of the
\* i-th record in date order, against the texts left in those before it.
BlocksOf(i) ==
    find_duplicates(records[i].original, AllText(records, i), DefaultMinLen)

RECURSIVE SizesBefore(_, _)
\* The total size of the first k - 1 blocks.
SizesBefore(blocks, k) ==
    IF k <= 1 THEN 0 ELSE SizesBefore(blocks, k - 1) + blocks[k - 1].size

\* Offset p (0-based) of the unedited text is inside one of the blocks.
InBlock(blocks, p) ==
    \E k \in 1..Len(blocks) :
        blocks[k].offset <= p /\ p < blocks[k].offset + blocks[k].size

RECURSIVE Outside(_, _, _)
\* The characters of text from offset p on that are inside no block.
Outside(text, blocks, p) ==
    IF p >= Len(text) THEN <<>>
    ELSE (IF InBlock(blocks, p) THEN <<>> ELSE <<text[p + 1]>>)
         \o Outside(text, blocks, p + 1)

\* What C17 asks of one record, its rows ls and the blocks of its text.
CutExactly(r, ls, blocks) ==
    /\ Len(ls) = Len(blocks)
    /\ \A k \in 1..Len(blocks) :
          /\ ls[k].was_at = blocks[k].offset - SizesBefore(blocks, k)
          /\ ls[k].offset_end - ls[k].offset_start = blocks[k].size
          /\ ls[k].removed_text
                = Slice(r.original, blocks[k].offset,
                        blocks[k].offset + blocks[k].size)
    /\ \A k \in 1..(Len(blocks) - 1) :
          blocks[k].offset + blocks[k].size <= blocks[k + 1].offset
    /\ r.text = Outside(r.original, blocks, 0)
    /\ Len(r.text) = Len(r.original) - SizesBefore(blocks, Len(blocks) + 1)

\* C17: after the pass a document's text is its original text without the
\* characters of the blocks found, by one find_duplicates call, in its
\* unedited text, and nothing else removed; the blocks are cut in ascending
\* order of offset, each at its offset less the sizes cut before it.
C17_CutsExactlyTheBlocks ==
    passes = 1 =>
        \A i \in 1..Len(records) :
            CutExactly(records[i], LinksOf(records[i].id), BlocksOf(i))

\* A document cut twice, with text of its own left.
C17_Witness ==
    /\ passes = 1
    /\ \E i \in 1..Len(records) :
          /\ Len(LinksOf(records[i].id)) = 2
          /\ records[i].text # <<>>
          /\ LinksOf(records[i].id)[2].was_at > 0

---------------------------------------------------------------------------
(* Properties of the order of the redundancy pass (BatchSpec). *)

RECURSIVE PostEditBefore(_)
\* The texts the pass left in the first i - 1 documents of the date
\* order, one after the other.
PostEditBefore(i) ==
    IF i <= 1 THEN <<>> ELSE PostEditBefore(i - 1) \o records[i - 1].text

\* The documents stand in ascending order of date, those of one date in
\* the order of the file.
InDateOrder ==
    \A i \in 1..Len(records), j \in 1..Len(records) :
        i < j => \/ records[i].date < records[j].date
                 \/ /\ records[i].date = records[j].date
                    /\ records[i].id < records[j].id

\* The i-th document was cut against the post-edit texts of those before it.
CutAgainst(r, reference) ==
    r.text = Outside(r.original,
                     find_duplicates(r.original, reference, DefaultMinLen), 0)

\* The dividers used for a block of the i-th document are the offsets at
\* which the documents before it start in that reference.
DividersOf(l, i) ==
    /\ Len(l.dividers) = i - 1
    /\ \A k \in 1..(i - 1) : l.dividers[k] = Len(PostEditBefore(k))

\* C18: the documents are processed in ascending order of date; the
\* reference text of document i is the concatenation, in that order, of
\* the post-edit texts of the documents before it, dividers[k] the offset
\* at which document k starts in it; the earliest document has an empty
\* reference and is left as it is.
C18_PassOrder ==
    passes = 1 =>
        /\ InDateOrder
        /\ \A i \in 1..Len(records) :
              CutAgainst(records[i], PostEditBefore(i))
        /\ \A k \in 1..Len(links) :
              DividersOf(links[k], PosOf(links[k].patient_record_id))
        /\ records # <<>> =>
              /\ records[1].text = records[1].original
              /\ LinksOf(records[1].id) = <<>>

\* A document cut against an earlier document that the pass had cut
\* before: its own text would be cut otherwise against the unedited one.
C18_Witness ==
    /\ passes = 1
    /\ Len(records) = 3
    /\ records[2].text # records[2].original
    /\ records[3].text # <<>>
    /\ records[3].text # records[3].original
    /\ Outside(records[3].original,
               find_duplicates(records[3].original,
                               AllOriginalText(records, 3), DefaultMinLen), 0)
          # records[3].text

---------------------------------------------------------------------------
(* Properties of the approximate search (SpanSpec). *)

\* C19: for a citation that occurs exactly in the record (whitespace
\* normalized, whatever the case), no span returned comes of the approximate
\* search, in find_first_match and in find_spans.  For find_spans the
\* occurrence is taken in the record as find_spans searches it.
C19_FuzzyOnlyFallback ==
    /\ (/\ IsFirstMatch
        /\ OccursIn(normalize_whitespace(record_text))
        /\ call.result.returned = "span")
       => call.result.how # "fuzzy"
    /\ (IsFindSpans /\ OccursIn(record_text))
       => \A k \in 1..Len(call.result.spans) :
              call.result.spans[k].how # "fuzzy"

\* The windows of text, of the length of the pattern, that reach the
\* threshold.
Reaching(pattern, text) ==
    {i \in 0..(Len(text) - Len(pattern)) :
         RatioAtLeastThreshold(pattern, Slice(text, i, i + Len(pattern)))}

\* The pattern and the text _fuzzy_find_first is given by find_first_match.
FirstPattern == Lower(normalize_whitespace(call.quoted_text))
FirstText == Lower(normalize_whitespace(record_text))

\* The pattern _fuzzy_find is given by find_spans.
BestPattern == normalize_whitespace(call.quoted_text)

\* The windows _fuzzy_find compares, lowercased, on the whole record.
BestReaching ==
    {i \in 0..(Len(record_text) - Len(BestPattern)) :
         RatioAtLeastThreshold(Lower(BestPattern),
                               Lower(Slice(record_text, i, i + Len(BestPattern))))}

\* find_first_match went on to _fuzzy_find_first.
FirstSearched == IsFirstMatch /\ "fuzzy" \in call.result.searched

\* The first span of find_spans comes of _fuzzy_find on the whole record.
BestSearched ==
    /\ IsFindSpans
    /\ call.result.spans # <<>>
    /\ call.result.spans[1].how = "fuzzy"

\* C20 as claimed: both approximate searches return the leftmost window
\* that reaches the threshold.
C20_LeftmostWindow ==
    /\ (FirstSearched /\ Reaching(FirstPattern, FirstText) # {})
       => /\ fuzzy_find_first(FirstPattern, FirstText).found
          /\ fuzzy_find_first(FirstPattern, FirstText).start
                = Min(Reaching(FirstPattern, FirstText))
    /\ BestSearched => call.result.spans[1].start_char = Min(BestReaching)

\* Window i of the record, as _fuzzy_find compares it.
BestWindow(i) == Lower(Slice(record_text, i, i + Len(BestPattern)))

\* The ratio 2.0 * M / T of a is greater than that of b, as fractions.
Greater(a, b) ==
    Matches(Lower(BestPattern), a) * (Len(Lower(BestPattern)) + Len(b))
    > Matches(Lower(BestPattern), b) * (Len(Lower(BestPattern)) + Len(a))

\* Window i is more similar to the pattern than window j.
MoreSimilar(i, j) == Greater(BestWindow(i), BestWindow(j))

\* The windows that reach the threshold and that no window exceeds.
MostSimilar ==
    {i \in BestReaching : \A j \in BestReaching : ~MoreSimilar(j, i)}

\* C20 (amended): _fuzzy_find_first returns the leftmost window that
\* reaches the threshold; _fuzzy_find returns, of the windows that reach
\* it, the one of the highest similarity, the leftmost of those.
C20_LeftmostOrBest ==
    /\ (FirstSearched /\ Reaching(FirstPattern, FirstText) # {})
       => /\ fuzzy_find_first(FirstPattern, FirstText).found
          /\ fuzzy_find_first(FirstPattern, FirstText).start
                = Min(Reaching(FirstPattern, FirstText))
    /\ BestSearched => call.result.spans[1].start_char = Min(MostSimilar)

\* _fuzzy_find passes over a window that reaches the threshold for a later
\* one of higher similarity.
C20_Witness ==
    /\ BestSearched
    /\ call.result.spans[1].start_char > Min(BestReaching)

---------------------------------------------------------------------------
(* Properties of the shortest pattern and of the threshold (SpanSpec). *)

\* The citation's normalized text is shorter than the shortest pattern of
\* the approximate search.
ShortCitation ==
    /\ normalize_whitespace(call.quoted_text) # <<>>
    /\ Len(normalize_whitespace(call.quoted_text)) < MinFuzzyLen

\* C21: a citation whose normalized text is shorter than 10 characters and
\* that has no exact occurrence in the record yields no span, from
\* find_spans and from find_first_match.  The occurrence is taken as each
\* resolver searches it: in the normalized record for find_first_match, in
\* the record as it is for find_spans, whatever the case.
C21_MinPatternLength ==
    /\ (/\ IsFirstMatch
        /\ ShortCitation
        /\ ~OccursIn(normalize_whitespace(record_text)))
       => call.result.returned = "None"
    /\ (IsFindSpans /\ ShortCitation /\ ~OccursIn(record_text))
       => call.result.spans = <<>>

\* Window i of text, as long as the pattern.
WindowAt(pattern, text, i) == Slice(text, i, i + Len(pattern))

\* The similarity 2*M/(len(pattern)+len(window)) is at or above 9/10.
AtOrAbove(pattern, window) ==
    2 * Matches(pattern, window) * ThresholdDen
        >= ThresholdNum * (Len(pattern) + Len(window))

\* The similarity is 9/10 exactly.
AtThreshold(pattern, window) ==
    2 * Matches(pattern, window) * ThresholdDen
        = ThresholdNum * (Len(pattern) + Len(window))

\* Some window of text is at or above the threshold.
SomeWindowAtOrAbove(pattern, text) ==
    \E i \in 0..(Len(text) - Len(pattern)) :
        AtOrAbove(pattern, WindowAt(pattern, text, i))

\* find_spans went on to _fuzzy_find over the whole record, with a pattern
\* long enough for it.
BestScanned ==
    /\ IsFindSpans
    /\ ~EmptyCitation(call.quoted_text)
    /\ Len(BestPattern) >= MinFuzzyLen
    /\ record_text # <<>>
    /\ ~OccursIn(record_text)

\* The window _fuzzy_find_first returned.
FirstWindow ==
    WindowAt(FirstPattern, FirstText,
             fuzzy_find_first(FirstPattern, FirstText).start)

\* C22: with the similarity 2*M/(len(pattern)+len(window)) of M matched
\* characters, the approximate search of either resolver finds a match when
\* some window's similarity is at or above the threshold 0.9, one equal to it
\* included, and none when every window's is below; for a pattern and window
\* of 20 characters the accepted window has 18 or more matched.
C22_ThresholdBoundary ==
    /\ FirstSearched =>
          /\ call.result.how # "nomatch"
                <=> SomeWindowAtOrAbove(FirstPattern, FirstText)
          /\ (call.result.how = "fuzzy" /\ Len(FirstPattern) = 20)
                => Matches(FirstPattern, FirstWindow) >= 18
    /\ BestScanned =>
          /\ call.result.spans # <<>>
                <=> \E i \in 0..(Len(record_text) - Len(BestPattern)) :
                        AtOrAbove(Lower(BestPattern), BestWindow(i))
          /\ (call.result.spans # <<>> /\ Len(Lower(BestPattern)) = 20)
                => Matches(Lower(BestPattern),
                           BestWindow(call.result.spans[1].start_char)) >= 18

\* A window whose similarity is the threshold exactly, 18 of 20 characters
\* matched, accepted by _fuzzy_find_first.
C22_Witness ==
    /\ FirstSearched
    /\ call.result.how = "fuzzy"
    /\ Len(FirstPattern) = 20
    /\ AtThreshold(FirstPattern, FirstWindow)
    /\ Matches(FirstPattern, FirstWindow) = 18

---------------------------------------------------------------------------
(* Properties of case folding and of the index map (SpanSpec). *)

\* The offset at which find_first_match found the citation exactly, in the
\* lowercased normalized record.
ExactPos == Find(FirstText, FirstPattern, 0)

\* C23: in find_first_match the lowercased normalized record text is as
\* long as the normalized record text, so that the offsets of an exact
\* match found in the lowercased text are offsets of the normalized text,
\* the text the index map is built for.
C23_FoldKeepsLength ==
    IsFirstMatch =>
        /\ Len(FirstText) = Len(normalize_whitespace(record_text))
        /\ call.result.how = "exact" =>
              ExactPos + Len(FirstPattern)
                  <= Len(normalize_whitespace(record_text))

\* _map_to_original_positions on the record for the normalized offsets
\* norm_start and norm_end.
MappedAt(norm_start, norm_end) ==
    map_to_original_positions(record_text, normalize_whitespace(record_text),
                              norm_start, norm_end)

\* The mapping of norm_start and norm_end raises nothing, and an offset at
\* or past the number of entries gives len(original_text).
ClampedTo(m, entries, norm_start, norm_end) ==
    /\ ~m.raised
    /\ norm_start >= entries => m.original_start = Len(record_text)
    /\ norm_end >= entries => m.original_end = Len(record_text)

\* The offsets a search of the lowercased normalized record can give: the
\* lowercased text is at most twice as long as the record.
NormOffsets == 0..(2 * Len(record_text) + 1)

\* C24: _map_to_original_positions never raises an index error: a
\* norm_start or norm_end at or past the number of entries of the index map
\* is clamped to the last entry, whose value is len(original_text), and a
\* pair is returned; find_first_match, which calls it, raises nothing.
C24_ClampToLast ==
    IsFirstMatch =>
        /\ call.result.returned # "raise"
        /\ \A s \in NormOffsets : \A e \in {s, s + 1} :
               ClampedTo(MappedAt(s, e), Len(norm_to_orig(record_text)), s, e)

\* An exact match whose end, found in the lowercased text, is past the
\* index map: the span returned ends at len(original_text).
C24_Witness ==
    /\ IsFirstMatch
    /\ call.result.how = "exact"
    /\ call.result.returned = "span"
    /\ ExactPos + Len(FirstPattern) >= Len(norm_to_orig(record_text))
    /\ call.result.end_char = Len(record_text)

\* The entries of list never decrease.
NonDecreasing(list) ==
    \A k \in 1..(Len(list) - 1) : list[k] <= list[k + 1]

\* The offsets of the characters of text that are not whitespace.
NonSpaceOffsets(text) == {i \in 0..(Len(text) - 1) : ~IsSpace(text[i + 1])}

\* The first entry of list is at or before the first character of text that
\* is not whitespace.
StartsAtOrBefore(list, text) ==
    /\ list # <<>>
    /\ \A i \in NonSpaceOffsets(text) : list[1] <= i

\* C25: the index map _map_to_original_positions builds is monotonically
\* non-decreasing for every text, and its first entry is at or before the
\* offset of the first character of the text that is not whitespace.
C25_IndexMapMonotone ==
    MapBuilt =>
        /\ NonDecreasing(norm_to_orig(record_text))
        /\ StartsAtOrBefore(norm_to_orig(record_text), record_text)

\* The map built for a text that starts with whitespace and holds a
\* character that is not: its first entry is before that character.
C25_Witness ==
    /\ MapBuilt
    /\ StartsWithSpace(record_text)
    /\ NonSpaceOffsets(record_text) # {}
    /\ Len(norm_to_orig(record_text)) >= 3
    /\ norm_to_orig(record_text)[1] < Min(NonSpaceOffsets(record_text))

---------------------------------------------------------------------------
(* Properties of the loop of find_spans (LoopSpec). *)

Returned == At("done")

\* Each span starts at or after the end of the one before it and after its
\* start, and carries its position in the list as match_index.
InOrder(spans) ==
    /\ \A k \in 1..Len(spans) : spans[k].match_index = k - 1
    /\ \A k \in 2..Len(spans) :
           /\ spans[k].start_char >= spans[k - 1].end_char
           /\ spans[k].start_char > spans[k - 1].start_char

\* C26: find_spans terminates for every citation that is not empty and
\* every record text, and the spans it returns do not overlap, are in
\* strictly increasing order of start_char (each start_char at or after the
\* end_char of the span before) and carry match_index 0, 1, 2, ... in the
\* order of the list.  The list the loop returns is the one find_spans is
\* modelled to return.
C26_TerminatesInOrder ==
    /\ [](call.fn = "find_spans" => InOrder(call.spans))
    /\ [](Returned =>
            call.spans = find_spans(call.quoted_text, call.confidence,
                                    record_text).spans)
    /\ (call.fn = "find_spans") ~> Returned

\* A call that has returned three spans.
C26_Witness ==
    /\ Returned
    /\ Len(call.spans) = 3
    /\ InOrder(call.spans)

---------------------------------------------------------------------------
(* Properties of the links as a record of the cuts (BatchSpec). *)

\* s[lo:hi] for any lo and hi: a negative offset counts from the end.
PySlice(s, lo, hi) ==
    LET l == IF lo < 0 THEN (IF lo + Len(s) < 0 THEN 0 ELSE lo + Len(s)) ELSE lo
        h == IF hi < 0 THEN (IF hi + Len(s) < 0 THEN 0 ELSE hi + Len(s)) ELSE hi
    IN  Slice(s, l, h)

\* duplicate_of.text[offset_start:offset_end] of link l.
LinkedText(l) == PySlice(TextOf(l.duplicate_of), l.offset_start, l.offset_end)

RECURSIVE Reinserted(_, _, _)
\* text with the linked texts of the first k links of ls inserted in
\* creation order, each at its was_at plus the length inserted before it.
Reinserted(text, ls, k) ==
    IF k = 0 THEN [text |-> text, inserted |-> 0]
    ELSE LET before == Reinserted(text, ls, k - 1)
             at == ls[k].was_at + before.inserted
             piece == LinkedText(ls[k])
         IN  [text |-> Slice(before.text, 0, at) \o piece
                       \o Slice(before.text, at, Len(before.text)),
              inserted |-> before.inserted + Len(piece)]

\* C27: for every document the pass edited, the was_at values of its links
\* never decrease in creation order, and inserting, in creation order, the
\* text duplicate_of.text[offset_start:offset_end] of each link at was_at
\* plus the length already inserted gives the document's original text.
C27_ReversibleFromLinks ==
    passes = 1 =>
        \A i \in 1..Len(records) :
            LinksOf(records[i].id) # <<>> =>
                /\ \A k \in 2..Len(LinksOf(records[i].id)) :
                       LinksOf(records[i].id)[k - 1].was_at
                           <= LinksOf(records[i].id)[k].was_at
                /\ Reinserted(records[i].text, LinksOf(records[i].id),
                              Len(LinksOf(records[i].id))).text
                       = records[i].original

---------------------------------------------------------------------------
(* Properties of the retries of FeatureExtractor (ExtractSpec). *)

\* What C28 asks of a task at every moment.
BoundedRetry(t) ==
    /\ t.calls <= 3
    /\ t.sleeps = IF t.failures >= 3 THEN 2 ELSE t.failures
    /\ t.pc = "sleep" => t.calls = t.failures /\ t.failures \in {1, 2}
    /\ t.result.kind \in {"pending", "dict"}
    /\ t.pc = "returned" =>
          /\ t.result.kind = "dict"
          /\ t.result.record_id = t.record_id
          /\ t.calls = IF t.failures = 3 THEN 3 ELSE t.failures + 1
          /\ t.failures = 3 => t.result.citations = <<>>

\* The results are one dict a record of the patient.
OneResultEach ==
    /\ Len(call.results) = Len(tasks)
    /\ \A i \in 1..Len(tasks) :
          Cardinality({k \in 1..Len(call.results) :
                          call.results[k] = tasks[i].result}) >= 1
    /\ \A k \in 1..Len(call.results) : call.results[k].kind = "dict"
    /\ {call.results[k].record_id : k \in 1..Len(call.results)}
          = 1..Len(tasks)

ExtractReturned ==
    call.fn = "extract_patient_features" /\ call.pc = "returned"

---------------------------------------------------------------------------
(* Properties of the requests of /api/process (ServeSpec). *)

\* The runs of process_batch on batch b: the request and its position in
\* the request's loop.
RunsOn(b) ==
    {<<r, k>> \in (1..Len(requests)) \X (1..MaxBatches) :
        /\ k <= Len(requests[r].processed)
        /\ requests[r].processed[k].batch = b}

\* C29: across any interleaving of calls of process_batches, process_batch
\* runs for a batch only while its done is null, and no batch has its
\* findings created twice: process_batch runs at most once for it.
C29_ProcessedOnce ==
    \A b \in 1..Len(batches) :
        /\ Cardinality(RunsOn(b)) <= 1
        /\ \A run \in RunsOn(b) :
               ~requests[run[1]].processed[run[2]].done


---------------------------------------------------------------------------
(* Properties of the exact duplicate removal of XMLParser (ParseSpec). *)

\* The places of the file whose element has all three children.
CompletePlaces(file) == {i \in 1..Len(file) : ~Incomplete(file[i])}

\* The places of the first complete element of each text.
FirstPlaces(file) ==
    {i \in CompletePlaces(file) :
        \A j \in CompletePlaces(file) :
            j < i => OrEmpty(file[j].text[1]) # OrEmpty(file[i].text[1])}

\* record holds the date, the type and the text of the element at place i.
TakenFrom(record, zaznam) ==
    /\ record.text = OrEmpty(zaznam.text[1])
    /\ record.date = OrEmpty(zaznam.datum[1])
    /\ record.record_type = OrEmpty(zaznam.typ[1])

===========================================================================
